---------------------------- MODULE Spec2Model ----------------------------
(***************************************************************************)
(* A model of polymarket_mcp's two concurrent cores and of their callers:  *)
(*   utils/rate_limiter.py      TokenBucket and RateLimiter                *)
(*   utils/websocket_manager.py WebSocketManager                           *)
(*   tools/trading.py           TradingTools, as far as it sends requests  *)
(* Time is the monotonic clock read in whole ticks of one second; every    *)
(* coroutine runs atomically from one suspension point (an await that      *)
(* really waits) to the next, as on a single asyncio event loop.           *)
(***************************************************************************)
EXTENDS Integers, Sequences, FiniteSets, TLC

(***************************************************************************)
(* Bounds of the model                                                     *)
(***************************************************************************)
MaxTime == 3
MaxTokens == 2
RefillRate == 1
NumCallers == 2
Max429 == 1
MaxChain == 7
MaxSubs == 2
MaxFrames == 2
MaxReconnects == 2
MaxErrors == 1
MaxAttempts == 8
MaxOutages == 3
ScenarioTokens == 5

Min(a, b) == IF a <= b THEN a ELSE b
Max(a, b) == IF a >= b THEN a ELSE b
CeilDiv(a, b) == (a + b - 1) \div b

(***************************************************************************)
(* rate_limiter.py                                                         *)
(***************************************************************************)
VARIABLES
    now,            \* time.monotonic(), in ticks
    buckets,        \* RateLimiter.buckets: category -> TokenBucket
    backoff_429,    \* RateLimiter._429_backoff: category -> backoff-until
    backoff_lock,   \* RateLimiter._backoff_lock
    callers,        \* the coroutines calling into the limiter
    granted,        \* history: tick -> tokens deducted by acquires returning then
    keep,           \* history: which of the histories this specification keeps
    durations,      \* history: category -> the backoff durations set in a row
    n429,           \* history: number of handle_429_error calls so far
    tools           \* the coroutines running TradingTools methods, one per caller

rlVars ==
    <<now, buckets, backoff_429, backoff_lock, callers, granted, keep,
      durations, n429, tools>>

VARIABLES
    manager,        \* the WebSocketManager object: its fields, named as in __init__
    tasks,          \* the coroutines running the manager's methods
    env             \* what surrounds the manager: uuid4, the build, and the histories

wsVars == <<manager, tasks, env>>
vars == <<rlVars, wsVars>>

Categories == {"market_data", "data_api"}
\* a category RATE_LIMITS has no entry for
UnknownCategory == "unknown"
Callers == 1..NumCallers
NoCaller == 0

\* a category configured with max_tokens = ScenarioTokens
ScenarioCategory == "scenario"

\* RATE_LIMITS, scaled down: every bucket holds MaxTokens and refills RefillRate per tick
max_tokens(c) == IF c = ScenarioCategory THEN ScenarioTokens ELSE MaxTokens
refill_rate(c) == RefillRate

\* sleep_time = max(sleep_time, 0.01): 0.01 s is below the clock's resolution,
\* a sleep of it ends at the next whole tick
MIN_SLEEP == 1
\* backoff_time = 1.0 and min(remaining * 2, 60.0)
BASE_BACKOFF == 1
MAX_BACKOFF == 60
\* retry_after: Optional[int] = None
None == -1
\* `if retry_after:` is false of None and of 0
Truthy(x) == x # None /\ x # 0

\* asyncio.Lock: the holder and the FIFO queue of waiting coroutines
FreeLock == [holder |-> NoCaller, waiters |-> <<>>]
LockIsFree(l) == l.holder = NoCaller /\ l.waiters = <<>>
LockTake(l, p) == [l EXCEPT !.holder = p]
LockEnqueue(l, p) == [l EXCEPT !.waiters = Append(@, p)]
LockRelease(l) == [l EXCEPT !.holder = NoCaller]
\* the first waiter is woken once the lock is released
LockWoken(l, p) == l.holder = NoCaller /\ l.waiters # <<>> /\ Head(l.waiters) = p
LockDequeue(l, p) == [holder |-> p, waiters |-> Tail(l.waiters)]

\* a mutant of TokenBucket.__init__: the bucket starts empty
NewBucketEmpty(c, t) == [tokens |-> 0, last_refill |-> t, lock |-> FreeLock]

\* TokenBucket.__init__
NewBucket(c, t) == [tokens |-> max_tokens(c), last_refill |-> t, lock |-> FreeLock]

IdleCaller ==
    [pc |-> "idle", op |-> "none", cat |-> "market_data", n |-> 0, retry |-> FALSE,
     retry_after |-> None, wake |-> 0, sleep_time |-> 0, wait_time |-> 0,
     total_wait |-> 0, call_time |-> 0, clear |-> FALSE, until |-> 0, h429 |-> <<>>, ret |-> 0]

\* the limiter's state as one record, for the operators that run a coroutine
\* from one suspension point to the next
Cur ==
    [buckets |-> buckets, backoff_429 |-> backoff_429, backoff_lock |-> backoff_lock,
     callers |-> callers, granted |-> granted, durations |-> durations]

\* dict.get(key, default)
Get(d, k, default) == IF k \in DOMAIN d THEN d[k] ELSE default
\* d[key] = value
Put(d, k, v) == [x \in DOMAIN d \cup {k} |-> IF x = k THEN v ELSE d[x]]

\* a mutant of _refill: the cap at max_tokens is dropped
RefillNoCap(c, b, t) ==
    [b EXCEPT !.tokens = @ + (t - b.last_refill) * refill_rate(c), !.last_refill = t]

\* a mutant of _refill: last_refill is not advanced, elapsed time is counted again
RefillNoStamp(c, b, t) ==
    [b EXCEPT !.tokens = Min(max_tokens(c), @ + (t - b.last_refill) * refill_rate(c))]

\* a mutant of _refill: the elapsed time is stamped but adds no tokens
RefillAddsNothing(c, b, t) == [b EXCEPT !.last_refill = t]

\* TokenBucket._refill at time t
Refill(c, b, t) ==
    [b EXCEPT !.tokens = Min(max_tokens(c), @ + (t - b.last_refill) * refill_rate(c)),
              !.last_refill = t]

\* sleep_time = max(tokens_needed / refill_rate, 0.01), in ticks
SleepTime(c, needed) == Max(CeilDiv(needed, refill_rate(c)), MIN_SLEEP)

\* the caller's coroutine returns v
Returned(s, p, v) ==
    [s EXCEPT !.callers[p] =
        [IdleCaller EXCEPT !.pc = "done", !.op = s.callers[p].op, !.cat = s.callers[p].cat,
                           !.n = s.callers[p].n, !.call_time = s.callers[p].call_time,
                           !.clear = s.callers[p].clear,
                           !.until = s.callers[p].until,
                           !.h429 = s.callers[p].h429,
                           !.ret = v]]

\* a mutant of TokenBucket.acquire: the lock is given up for the sleep
BucketLoopSleepsUnlocked(s, p, t) ==
    LET c == s.callers[p].cat
        n == s.callers[p].n
        b == Refill(c, s.buckets[c], t)
    IN  IF b.tokens >= n
        THEN Returned(
                [s EXCEPT !.buckets[c] = [b EXCEPT !.tokens = @ - n,
                                                   !.lock = LockRelease(b.lock)],
                          !.granted[t] = IF "grants" \in keep THEN @ + n ELSE @],
                p, s.callers[p].total_wait + s.callers[p].wait_time)
        ELSE [s EXCEPT !.buckets[c] = [b EXCEPT !.lock = LockRelease(b.lock)],
                       !.callers[p].pc = "bucket_sleep",
                       !.callers[p].sleep_time = SleepTime(c, n - b.tokens),
                       !.callers[p].wake = t + SleepTime(c, n - b.tokens)]

\* One pass of `while True` in TokenBucket.acquire, the bucket's lock held by p:
\* refill, then deduct and return, or sleep with the lock held.
BucketLoop(s, p, t) ==
    LET c == s.callers[p].cat
        n == s.callers[p].n
        b == Refill(c, s.buckets[c], t)
    IN  IF b.tokens >= n
        THEN Returned(
                [s EXCEPT !.buckets[c] = [b EXCEPT !.tokens = @ - n,
                                                   !.lock = LockRelease(b.lock)],
                          !.granted[t] = IF "grants" \in keep THEN @ + n ELSE @],
                p, s.callers[p].total_wait + s.callers[p].wait_time)
        ELSE [s EXCEPT !.buckets[c] = b,
                       !.callers[p].pc = "bucket_sleep",
                       !.callers[p].sleep_time = SleepTime(c, n - b.tokens),
                       !.callers[p].wake = t + SleepTime(c, n - b.tokens)]

\* TokenBucket.acquire up to its first suspension: `async with self._lock`
BucketAcquire(s, p, t) ==
    LET c == s.callers[p].cat
        s0 == [s EXCEPT !.callers[p].wait_time = 0]
    IN  IF LockIsFree(s.buckets[c].lock)
        THEN BucketLoop([s0 EXCEPT !.buckets[c].lock = LockTake(@, p)], p, t)
        ELSE [s0 EXCEPT !.buckets[c].lock = LockEnqueue(@, p),
                        !.callers[p].pc = "bucket_lock"]

\* RateLimiter.acquire inside `async with self._backoff_lock`, the lock held by p
BackoffCheck(s, p, t) ==
    LET c == s.callers[p].cat
        backoff_until == Get(s.backoff_429, c, 0)
    IN  IF backoff_until > t
        THEN [s EXCEPT !.callers[p].pc = "backoff_sleep",
                       !.callers[p].sleep_time = backoff_until - t,
                       !.callers[p].wake = backoff_until]
        ELSE BucketAcquire([s EXCEPT !.backoff_lock = LockRelease(@)], p, t)

\* a mutant of RateLimiter.acquire: the category is looked up in _429_backoff
\* with [] instead of get, which leaves an entry in the defaultdict
LimiterAcquireTouchesBackoff(s, p, t) ==
    Returned([s EXCEPT !.backoff_429 = Put(@, s.callers[p].cat, Get(@, s.callers[p].cat, 0))],
             p, 0)

\* RateLimiter.acquire up to its first suspension
LimiterAcquire(s, p, t) ==
    LET s0 == [s EXCEPT !.callers[p].total_wait = 0]
    IN  IF s.callers[p].cat \notin DOMAIN s.buckets
        THEN Returned(s, p, 0)
        ELSE IF s.callers[p].retry
        THEN IF LockIsFree(s.backoff_lock)
             THEN BackoffCheck([s0 EXCEPT !.backoff_lock = LockTake(@, p)], p, t)
             ELSE [s0 EXCEPT !.backoff_lock = LockEnqueue(@, p),
                             !.callers[p].pc = "backoff_lock"]
        ELSE BucketAcquire(s0, p, t)

\* a mutant of the backoff duration: the ceiling is not applied
BackoffTimeUncapped(current_backoff, retry_after, t) ==
    IF Truthy(retry_after)
    THEN retry_after
    ELSE IF current_backoff > t THEN (current_backoff - t) * 2 ELSE BASE_BACKOFF

\* the backoff duration handle_429_error chooses
BackoffTime(current_backoff, retry_after, t) ==
    IF Truthy(retry_after)
    THEN retry_after
    ELSE IF current_backoff > t
         THEN Min((current_backoff - t) * 2, MAX_BACKOFF)
         ELSE BASE_BACKOFF

\* RateLimiter.handle_429_error inside `async with self._backoff_lock`
Handle429Body(s, p, t) ==
    LET c == s.callers[p].cat
        ra == s.callers[p].retry_after
        current_backoff == Get(s.backoff_429, c, 0)
        backoff_time == BackoffTime(current_backoff, ra, t)
        \* history: the durations set without retry_after, each before the last expired
        chain == IF ra = None /\ current_backoff > t /\ s.durations[c] # <<>>
                 THEN <<s.durations[c][Len(s.durations[c])], backoff_time>>
                 ELSE IF ra = None THEN <<backoff_time>> ELSE <<>>
    IN  Returned(
            [s EXCEPT !.backoff_429 = Put(@, c, t + backoff_time),
                      !.backoff_lock = LockRelease(@),
                      !.durations[c] = IF "chain" \in keep THEN chain ELSE @,
                      \* history: what the call was given, what it read, what it set
                      !.callers[p].h429 =
                          IF "h429" \in keep
                          THEN <<[retry_after |-> ra, now |-> t,
                                  current_backoff |-> current_backoff,
                                  backoff_until |-> t + backoff_time]>>
                          ELSE <<>>],
            p, 0)

\* RateLimiter.handle_429_error up to its first suspension
Handle429(s, p, t) ==
    IF LockIsFree(s.backoff_lock)
    THEN Handle429Body([s EXCEPT !.backoff_lock = LockTake(@, p)], p, t)
    ELSE [s EXCEPT !.backoff_lock = LockEnqueue(@, p), !.callers[p].pc = "h429_lock"]

\* the status dictionary of get_status, read at time t from buckets b (refilled)
\* and backoff entries k
StatusOf(b, k, t) ==
    [c \in DOMAIN b |->
        [available_tokens |-> b[c].tokens,
         max_tokens |-> max_tokens(c),
         refill_rate_per_sec |-> refill_rate(c),
         backoff_remaining_sec |-> Max(0, Get(k, c, 0) - t),
         is_throttled |-> Max(0, Get(k, c, 0) - t) > 0]]

\* a mutant of get_status: the backoff is read with self._429_backoff[category],
\* which makes the defaultdict store an entry
GetStatusStoresEntries(s, p, t) ==
    LET b == [c \in DOMAIN s.buckets |-> Refill(c, s.buckets[c], t)]
        k == [c \in DOMAIN s.buckets \cup DOMAIN s.backoff_429 |-> Get(s.backoff_429, c, 0)]
    IN  Returned([s EXCEPT !.buckets = b, !.backoff_429 = k], p, StatusOf(b, k, t))

\* RateLimiter.get_status: no await, the whole call is one step
GetStatus(s, p, t) ==
    LET b == [c \in DOMAIN s.buckets |-> Refill(c, s.buckets[c], t)]
    IN  Returned([s EXCEPT !.buckets = b], p, StatusOf(b, s.backoff_429, t))

\* the state record becomes the next state
Becomes(s) ==
    /\ buckets' = s.buckets
    /\ backoff_429' = s.backoff_429
    /\ backoff_lock' = s.backoff_lock
    /\ callers' = s.callers
    /\ granted' = s.granted
    /\ durations' = s.durations

\* history: at the call the category has no active backoff, its bucket is free
\* and holds the tokens asked for
Clear(c, n) ==
    /\ c \in DOMAIN buckets
    /\ Get(backoff_429, c, 0) <= now
    /\ LockIsFree(buckets[c].lock)
    /\ Refill(c, buckets[c], now).tokens >= n

\* a caller starts a coroutine
Started(p, op, c, n, retry, ra) ==
    [Cur EXCEPT !.callers[p] =
        [IdleCaller EXCEPT !.op = op, !.cat = c, !.n = n, !.retry = retry,
                           !.retry_after = ra,
                           !.call_time = IF "calls" \in keep THEN now ELSE 0,
                           !.clear = op = "acquire" /\ Clear(c, n),
                           \* history: the backoff-until an acquire finds active at its call
                           !.until = IF "until" \in keep /\ op = "acquire" /\ retry
                                        /\ Get(backoff_429, c, 0) > now
                                     THEN Get(backoff_429, c, 0) ELSE 0]]

(***************************************************************************)
(* tools/trading.py: the coroutines of TradingTools                        *)
(***************************************************************************)
\* EndpointCategory.TRADING_BURST
TRADING_BURST == "trading_burst"

\* the methods of the REST client a trading tool awaits
ClientCalls == {"get_market", "get_orderbook", "get_positions", "post_order"}

\* a tool coroutine: `inner` is true inside create_limit_order's body, acquires
\* counts the rate_limiter.acquire calls the coroutine has completed, requests
\* is the history of the client calls it made, each with acquires at that time
IdleTool ==
    [pc |-> "idle", op |-> "none", inner |-> FALSE, valid |-> TRUE, acquires |-> 0,
     requests |-> <<>>, ret |-> "none"]

\* await self.client.<name>(...): the request goes out, the tool awaits the response
Request(tl, name) ==
    [tl EXCEPT !.pc = name,
               !.requests = Append(@, [name |-> name, acquires |-> tl.acquires])]

\* `except Exception` of a tool: the failure dictionary is returned
ToolFails(tl) == [tl EXCEPT !.pc = "done", !.ret = "failure"]

(***************************************************************************)
(* websocket_manager.py: the data                                          *)
(***************************************************************************)
\* the two sockets, clob_ws and realtime_ws
Sockets == {"clob", "realtime"}

\* ChannelType
CLOB_USER == "user"
CLOB_MARKET == "market"
ACTIVITY == "activity"
CRYPTO_PRICES == "crypto_prices"

\* EventType: the discriminators that have a typed handler
PRICE_CHANGE == "price_change"
AGG_ORDERBOOK == "agg_orderbook"
ORDER == "order"
TRADE == "trade"
MARKET_RESOLVED == "market_resolved"

\* the discriminators a frame can carry; "tick_size_change" stands for every
\* other one, which handle_message gives to _handle_generic_event
EventNames ==
    {PRICE_CHANGE, AGG_ORDERBOOK, ORDER, TRADE, MARKET_RESOLVED, "tick_size_change"}

Markets == {"A", "B"}
Tokens == {"T1", "T2"}

\* Python's None where a str is expected; "" is the other falsy str
NoStr == "None"
StrTruthy(x) == x # NoStr /\ x # ""

\* Optional[List[str]]: None, or a list (kept as the set of its members)
NoList == [given |-> FALSE, ids |-> {}]
List(S) == [given |-> TRUE, ids |-> S]
\* `if market_ids:` is false of None and of []
ListTruthy(l) == l.given /\ l.ids # {}

\* the price strings a frame can carry, and Decimal(str(price)) in hundredths;
\* Decimal raises InvalidOperation on "abc"
BadPrice == -1
ParsePrice(price) ==
    CASE price = NoStr -> 0
      [] price = "0.55" -> 55
      [] price = "0.60" -> 60
      [] OTHER -> BadPrice

\* a parsed JSON frame: message.get(key) is NoStr where the key is missing
Frame(type, event, market, market_id, asset_id, price) ==
    [type |-> type, event |-> event, market |-> market, market_id |-> market_id,
     asset_id |-> asset_id, price |-> price]
NoFrame == Frame(NoStr, NoStr, NoStr, NoStr, NoStr, NoStr)

\* class Subscription
Subscription(id, type, channel, market_ids, token_ids, callback_type) ==
    [id |-> id, type |-> type, channel |-> channel, market_ids |-> market_ids,
     token_ids |-> token_ids, callback_type |-> callback_type, events_received |-> 0]
NoSub == Subscription(0, NoStr, NoStr, NoList, NoList, NoStr)

\* WebSocketManager.__init__
NewManager(notification_callback, log_callback, has_api_credentials) ==
    [notification_callback |-> notification_callback,
     log_callback |-> log_callback,
     has_api_credentials |-> has_api_credentials,
     clob_ws |-> "none", realtime_ws |-> "none",
     clob_connected |-> FALSE, realtime_connected |-> FALSE, authenticated |-> FALSE,
     subscriptions |-> <<>>,
     market_subscriptions |-> [x \in Markets |-> {}],
     token_subscriptions |-> [x \in Tokens |-> {}],
     should_run |-> FALSE,
     reconnect_attempts |-> 0,
     total_events_received |-> 0,
     events_by_type |-> [e \in EventNames |-> 0],
     connection_errors |-> 0,
     reconnect_count |-> 0]

\* the tasks: the background loop, the receive task of each socket, two
\* coroutines of the host that call the manager
TaskIds == {"loop", "clob", "realtime", "api", "api2"}

IdleTask ==
    [pc |-> "idle", op |-> "none", id |-> 0, ok |-> FALSE, exc |-> "none",
     timer |-> None, data |-> NoFrame, matching |-> <<>>, k |-> 0, no |-> 0,
     sub |-> NoSub, args |-> <<>>, it |-> 0, it_len |-> 0, before |-> <<>>,
     resent |-> <<>>]

NewEnv(wait_takes_coroutines) ==
    [wait_takes_coroutines |-> wait_takes_coroutines, next_id |-> 1, frames |-> 0,
     sent |-> <<>>, delivered |-> <<>>, log |-> <<>>, removed |-> {}]

\* the manager, its tasks and its surroundings as one record
WCur == [manager |-> manager, tasks |-> tasks, env |-> env]
WBecomes(w) ==
    /\ manager' = w.manager
    /\ tasks' = w.tasks
    /\ env' = w.env

\* the socket a ChannelType is served by (_send_subscription, _send_unsubscription)
SocketOf(channel) == IF channel \in {CLOB_USER, CLOB_MARKET} THEN "clob" ELSE "realtime"
Ws(m, s) == IF s = "clob" THEN m.clob_ws ELSE m.realtime_ws
Connected(m, s) == IF s = "clob" THEN m.clob_connected ELSE m.realtime_connected

\* the registry is a dict: insertion-ordered, keyed by subscription id
Ids(subs) == {subs[i].id : i \in 1..Len(subs)}
SubOf(subs, id) == subs[CHOOSE i \in 1..Len(subs) : subs[i].id = id]
RECURSIVE Without(_, _)
Without(subs, id) ==
    IF subs = <<>> THEN <<>>
    ELSE IF Head(subs).id = id THEN Tail(subs)
    ELSE <<Head(subs)>> \o Without(Tail(subs), id)

\* the coroutine of task p returns / raises e
Done(w, p) == [w EXCEPT !.tasks[p].pc = "done"]
Raise(w, p, e) == [w EXCEPT !.tasks[p].pc = "done", !.tasks[p].exc = e]

\* history: a frame written to socket s
Sent(w, p, s, type, sub) ==
    [w EXCEPT !.env.sent =
                  IF "sent" \in keep
                  THEN Append(@, [socket |-> s, type |-> type, channel |-> sub.channel,
                                  event |-> sub.type, id |-> sub.id])
                  ELSE @,
              !.tasks[p].resent =
                  IF "resent" \in keep /\ type = "subscribe" THEN Append(@, sub.id) ELSE @]

(***************************************************************************)
(* subscribe and unsubscribe                                               *)
(***************************************************************************)
\* what `await ws.send(...)` of _send_subscription does: RuntimeError when the
\* connected flag is down, ConnectionClosed when the socket is not open
SendOutcome(m, sub) ==
    IF ~Connected(m, SocketOf(sub.channel)) THEN "RuntimeError"
    ELSE IF Ws(m, SocketOf(sub.channel)) # "open" THEN "ConnectionClosed"
    ELSE "sent"

\* a mutant of subscribe: the user channel is not checked for authentication
SubscribeUnchecked(w, p, event_type, channel, market_ids, token_ids, callback_type) ==
    LET subscription ==
            Subscription(w.env.next_id, event_type, channel, market_ids, token_ids,
                         callback_type)
        w1 == [w EXCEPT
                !.env.next_id = @ + 1,
                !.tasks[p].id = subscription.id,
                !.manager.subscriptions = Append(@, subscription),
                !.manager.market_subscriptions =
                    [x \in Markets |->
                       IF ListTruthy(market_ids) /\ x \in market_ids.ids
                       THEN w.manager.market_subscriptions[x] \cup {subscription.id}
                       ELSE w.manager.market_subscriptions[x]],
                !.manager.token_subscriptions =
                    [x \in Tokens |->
                       IF ListTruthy(token_ids) /\ x \in token_ids.ids
                       THEN w.manager.token_subscriptions[x] \cup {subscription.id}
                       ELSE w.manager.token_subscriptions[x]]]
    IN  IF SendOutcome(w1.manager, subscription) = "sent"
        THEN [Sent(w1, p, SocketOf(channel), "subscribe", subscription)
                 EXCEPT !.tasks[p].pc = "subscribe_send"]
        ELSE Raise(w1, p, SendOutcome(w1.manager, subscription))

\* WebSocketManager.subscribe up to its first suspension, the send of the frame
Subscribe(w, p, event_type, channel, market_ids, token_ids, callback_type) ==
    IF channel = CLOB_USER /\ ~w.manager.authenticated
    THEN Raise(w, p, "RuntimeError")
    ELSE LET subscription ==
                 Subscription(w.env.next_id, event_type, channel, market_ids, token_ids,
                              callback_type)
             w1 == [w EXCEPT
                     !.env.next_id = @ + 1,
                     !.tasks[p].id = subscription.id,
                     !.manager.subscriptions = Append(@, subscription),
                     !.manager.market_subscriptions =
                         [x \in Markets |->
                            IF ListTruthy(market_ids) /\ x \in market_ids.ids
                            THEN w.manager.market_subscriptions[x] \cup {subscription.id}
                            ELSE w.manager.market_subscriptions[x]],
                     !.manager.token_subscriptions =
                         [x \in Tokens |->
                            IF ListTruthy(token_ids) /\ x \in token_ids.ids
                            THEN w.manager.token_subscriptions[x] \cup {subscription.id}
                            ELSE w.manager.token_subscriptions[x]]]
         IN  IF SendOutcome(w1.manager, subscription) = "sent"
             THEN [Sent(w1, p, SocketOf(channel), "subscribe", subscription)
                      EXCEPT !.tasks[p].pc = "subscribe_send"]
             ELSE Raise(w1, p, SendOutcome(w1.manager, subscription))

\* a mutant of the removal: the registry entry is kept
RemoveKeepsEntry(w, p, sub) ==
    [Done(w, p) EXCEPT !.tasks[p].ok = TRUE]

\* a mutant of the removal: the id is left in the two indexes
RemoveKeepsIndexes(w, p, sub) ==
    IF sub.id \notin Ids(w.manager.subscriptions)
    THEN Raise(w, p, "KeyError")
    ELSE [Done(w, p) EXCEPT
            !.tasks[p].ok = TRUE,
            !.env.removed = @ \cup {sub.id},
            !.manager.subscriptions = Without(@, sub.id)]

\* unsubscribe after the frame: the indexes, `del self.subscriptions[id]`, return True
Remove(w, p, sub) ==
    IF sub.id \notin Ids(w.manager.subscriptions)
    THEN Raise(w, p, "KeyError")
    ELSE [Done(w, p) EXCEPT
            !.tasks[p].ok = TRUE,
            !.env.removed = @ \cup {sub.id},
            !.manager.subscriptions = Without(@, sub.id),
            !.manager.market_subscriptions =
                [x \in Markets |->
                    IF ListTruthy(sub.market_ids) /\ x \in sub.market_ids.ids
                    THEN w.manager.market_subscriptions[x] \ {sub.id}
                    ELSE w.manager.market_subscriptions[x]],
            !.manager.token_subscriptions =
                [x \in Tokens |->
                    IF ListTruthy(sub.token_ids) /\ x \in sub.token_ids.ids
                    THEN w.manager.token_subscriptions[x] \ {sub.id}
                    ELSE w.manager.token_subscriptions[x]]]

\* WebSocketManager.unsubscribe up to its first suspension.  _send_unsubscription
\* returns at once when the socket is missing or closed; a send that raises (the
\* socket is closing) is caught and logged.
Unsubscribe(w, p, subscription_id) ==
    IF subscription_id \notin Ids(w.manager.subscriptions)
    THEN [Done(w, p) EXCEPT !.tasks[p].ok = FALSE]
    ELSE LET subscription == SubOf(w.manager.subscriptions, subscription_id)
             s == SocketOf(subscription.channel)
         IN  IF Ws(w.manager, s) = "open"
             THEN [Sent(w, p, s, "unsubscribe", subscription)
                      EXCEPT !.tasks[p].pc = "unsubscribe_send",
                             !.tasks[p].sub = subscription]
             ELSE Remove(w, p, subscription)

(***************************************************************************)
(* handle_message and the typed handlers                                   *)
(***************************************************************************)
\* a mutant of the filters: the market filter is not applied
MatchesAnyMarket(sub, event_type, market_id, token_id) ==
    /\ sub.type = event_type
    /\ ~(ListTruthy(sub.token_ids) /\ StrTruthy(token_id) /\ token_id \notin sub.token_ids.ids)

\* a mutant of the filters: they are applied to events that carry no key as well
MatchesStrict(sub, event_type, market_id, token_id) ==
    /\ sub.type = event_type
    /\ ~(ListTruthy(sub.market_ids) /\ market_id \notin sub.market_ids.ids)
    /\ ~(ListTruthy(sub.token_ids) /\ token_id \notin sub.token_ids.ids)

\* the three checks of the loop body of _find_matching_subscriptions: the
\* subscription is appended unless one of them says `continue`
Matches(sub, event_type, market_id, token_id) ==
    /\ ~(sub.type # event_type)
    /\ ~(ListTruthy(sub.market_ids) /\ StrTruthy(market_id)
            /\ market_id \notin sub.market_ids.ids)
    /\ ~(ListTruthy(sub.token_ids) /\ StrTruthy(token_id)
            /\ token_id \notin sub.token_ids.ids)

RECURSIVE FindMatchingSubscriptions(_, _, _, _)
\* WebSocketManager._find_matching_subscriptions over self.subscriptions.values()
FindMatchingSubscriptions(subs, event_type, market_id, token_id) ==
    IF subs = <<>> THEN <<>>
    ELSE (IF Matches(Head(subs), event_type, market_id, token_id)
          THEN <<Head(subs)>> ELSE <<>>)
         \o FindMatchingSubscriptions(Tail(subs), event_type, market_id, token_id)

\* message.get("type") or message.get("event")
Discriminator(data) == IF StrTruthy(data.type) THEN data.type ELSE data.event

\* data.get(key, "")
GetOrEmpty(v) == IF v = NoStr THEN "" ELSE v

\* What the typed handler of a discriminator takes from the frame: whether its
\* fields parse, the market id and token id it matches on, the price it
\* reports, and whether it has a branch for "log" subscriptions.
EventOf(event_type, data) ==
    CASE event_type = PRICE_CHANGE ->
            [parsed |-> ParsePrice(data.price) # BadPrice, market_id |-> data.market,
             token_id |-> GetOrEmpty(data.asset_id), price |-> ParsePrice(data.price),
             log |-> TRUE]
      [] event_type = AGG_ORDERBOOK ->
            [parsed |-> TRUE, market_id |-> NoStr,
             token_id |-> GetOrEmpty(data.asset_id), price |-> 0, log |-> FALSE]
      [] event_type = ORDER ->
            [parsed |-> ParsePrice(data.price) # BadPrice, market_id |-> data.market_id,
             token_id |-> NoStr, price |-> ParsePrice(data.price), log |-> FALSE]
      [] event_type = TRADE ->
            [parsed |-> ParsePrice(data.price) # BadPrice,
             market_id |-> GetOrEmpty(data.market_id),
             token_id |-> NoStr, price |-> ParsePrice(data.price), log |-> FALSE]
      [] event_type = MARKET_RESOLVED ->
            [parsed |-> TRUE, market_id |-> GetOrEmpty(data.market_id),
             token_id |-> NoStr, price |-> 0, log |-> FALSE]
      [] OTHER ->
            [parsed |-> TRUE, market_id |-> NoStr, token_id |-> NoStr, price |-> 0,
             log |-> FALSE]

TypedEvents == {PRICE_CHANGE, AGG_ORDERBOOK, ORDER, TRADE, MARKET_RESOLVED}

\* the callback a typed handler awaits for a matching subscription, "none" when
\* it awaits nothing
CallbackFor(m, event, sub) ==
    IF sub.callback_type = "notification" /\ m.notification_callback THEN "notification"
    ELSE IF event.log /\ sub.callback_type = "log" /\ m.log_callback THEN "log"
    ELSE "none"

\* sub.events_received += 1 on the Subscription object; an object that has left
\* the registry is still counted, but nothing reads it any more
Counted(subs, id) ==
    [i \in 1..Len(subs) |->
        IF subs[i].id = id THEN [subs[i] EXCEPT !.events_received = @ + 1] ELSE subs[i]]

\* the matching list holds the Subscription objects; only what a handler reads of
\* them is kept
Refs(matching) == [i \in 1..Len(matching) |-> [matching[i] EXCEPT !.events_received = 0]]

\* a mutant of the statistics: the per-type counter is not advanced
CountEventTotalOnly(m, event_type) ==
    [m EXCEPT !.total_events_received = @ + 1]

\* handle_message: "Update statistics"
CountEvent(m, event_type) ==
    [m EXCEPT !.total_events_received = @ + 1, !.events_by_type[event_type] = @ + 1]

\* handle_message has ended for the task: a direct call returns to its caller, a
\* receive task is done
Handled(w, t) ==
    [w EXCEPT !.tasks[t] = [IdleTask EXCEPT !.pc = IF w.tasks[t].op = "receive"
                                                   THEN "done" ELSE "idle",
                                            !.op = IF w.tasks[t].op = "receive"
                                                   THEN "receive" ELSE "none"],
              !.env.log = IF "log" \in keep
                          THEN [@ EXCEPT ![w.tasks[t].no].ended = TRUE] ELSE @]

RECURSIVE NotifyFrom(_, _, _)
\* `for sub in matching_subs:` from the k-th match on, up to the next callback
\* that is awaited
NotifyFrom(w, t, k) ==
    IF k > Len(w.tasks[t].matching)
    THEN Handled(w, t)
    ELSE LET sub == w.tasks[t].matching[k]
             data == w.tasks[t].data
             event == EventOf(Discriminator(data), data)
             callback == CallbackFor(w.manager, event, sub)
             w1 == [w EXCEPT !.manager.subscriptions = Counted(@, sub.id)]
         IN  IF callback = "none"
             THEN NotifyFrom(w1, t, k + 1)
             ELSE [w1 EXCEPT
                     !.tasks[t].pc = "callback",
                     !.tasks[t].k = k,
                     !.env.delivered =
                         IF "delivered" \in keep
                         THEN Append(@, [no |-> w.tasks[t].no, sub |-> sub,
                                         callback |-> callback,
                                         event |-> Discriminator(data),
                                         price |-> event.price,
                                         late |-> sub.id \in w.env.removed])
                         ELSE @]

\* a mutant of handle_message: total_events_received is advanced before the
\* discriminator is looked at
HandleMessageCountsFirst(w, t, data) ==
    LET event_type == Discriminator(data)
        event == EventOf(event_type, data)
        no == IF "log" \in keep THEN Len(w.env.log) + 1 ELSE 0
        w1 == [w EXCEPT
                 !.env.frames = @ + 1,
                 !.manager.total_events_received = @ + 1,
                 !.env.log = IF "log" \in keep
                             THEN Append(@, [data |-> data, next_id |-> w.env.next_id,
                                             task |-> t, ended |-> FALSE,
                                             cancelled |-> FALSE,
                                             removed |-> w.env.removed])
                             ELSE @,
                 !.tasks[t].data = data,
                 !.tasks[t].no = no]
    IN  IF ~StrTruthy(event_type)
        THEN Handled(w1, t)
        ELSE LET w2 == [w1 EXCEPT !.manager.events_by_type[event_type] = @ + 1]
             IN  IF event_type \notin TypedEvents \/ ~event.parsed
                 THEN Handled(w2, t)
                 ELSE NotifyFrom(
                         [w2 EXCEPT !.tasks[t].matching =
                             Refs(FindMatchingSubscriptions(
                                     w2.manager.subscriptions, event_type,
                                     event.market_id, event.token_id))],
                         t, 1)

\* WebSocketManager.handle_message up to the first callback it awaits
HandleMessage(w, t, data) ==
    LET event_type == Discriminator(data)
        event == EventOf(event_type, data)
        no == IF "log" \in keep THEN Len(w.env.log) + 1 ELSE 0
        w1 == [w EXCEPT
                 !.env.frames = @ + 1,
                 !.env.log = IF "log" \in keep
                             THEN Append(@, [data |-> data, next_id |-> w.env.next_id,
                                             task |-> t, ended |-> FALSE,
                                             cancelled |-> FALSE,
                                             removed |-> w.env.removed])
                             ELSE @,
                 !.tasks[t].data = data,
                 !.tasks[t].no = no]
    IN  IF ~StrTruthy(event_type)
        THEN Handled(w1, t)
        ELSE LET w2 == [w1 EXCEPT !.manager = CountEvent(@, event_type)]
             IN  IF event_type \notin TypedEvents \/ ~event.parsed
                 THEN Handled(w2, t)
                 ELSE NotifyFrom(
                         [w2 EXCEPT !.tasks[t].matching =
                             Refs(FindMatchingSubscriptions(
                                     w2.manager.subscriptions, event_type,
                                     event.market_id, event.token_id))],
                         t, 1)

\* the awaited callback returns, or raises: the handler's `except Exception`
\* logs the error and the handler ends
AfterCallback(w, t, raises) ==
    IF raises THEN Handled(w, t) ELSE NotifyFrom(w, t, w.tasks[t].k + 1)

(***************************************************************************)
(* connect, disconnect, reconnect and the background loop                  *)
(***************************************************************************)
INITIAL_RECONNECT_DELAY == 1
MAX_RECONNECT_DELAY == 60
RECONNECT_MULTIPLIER == 2
\* asyncio.wait(tasks, timeout=1.0) and asyncio.sleep(1.0) of the loop
LOOP_TIMEOUT == 1
\* asyncio.wait_for(self.clob_ws.recv(), timeout=5.0)
AUTH_TIMEOUT == 5
\* asyncio.wait_for(self.background_task, timeout=5.0)
STOP_TIMEOUT == 5

SetWs(m, s, v) == IF s = "clob" THEN [m EXCEPT !.clob_ws = v] ELSE [m EXCEPT !.realtime_ws = v]
SetConnected(m, s, v) ==
    IF s = "clob" THEN [m EXCEPT !.clob_connected = v] ELSE [m EXCEPT !.realtime_connected = v]

\* the task suspends at pc, to be resumed after `timer` seconds (None: by an event)
Suspend(w, p, pc, timer) == [w EXCEPT !.tasks[p].pc = pc, !.tasks[p].timer = timer]

\* a mutant of reconnect: the delay does not grow with the failed attempts
ReconnectAtOnce(w, p) ==
    Suspend([w EXCEPT !.manager.reconnect_count = @ + 1, !.tasks[p].resent = <<>>],
            p, "reconnect_sleep", INITIAL_RECONNECT_DELAY)

\* reconnect() up to its sleep
Reconnect(w, p) ==
    Suspend([w EXCEPT !.manager.reconnect_count = @ + 1, !.tasks[p].resent = <<>>],
            p, "reconnect_sleep",
            Min(INITIAL_RECONNECT_DELAY * RECONNECT_MULTIPLIER ^ w.manager.reconnect_attempts,
                MAX_RECONNECT_DELAY))

\* One pass of `while self.should_run` in _background_loop up to its await.
\* asyncio.wait is given coroutines: it wraps them in tasks where the build
\* allows that and raises TypeError where it does not, which the loop's
\* `except Exception` answers with a sleep.  Nothing inside the try raises
\* ConnectionClosed into the loop: a receive task's exception stays in the task.
LoopTop(w) ==
    LET m == w.manager
        ready == {s \in Sockets : Ws(m, s) \in {"open", "closing"}}
    IN  IF ~m.should_run
        THEN [w EXCEPT !.tasks["loop"] = [IdleTask EXCEPT !.pc = "stopped", !.op = "loop"]]
        ELSE IF ~m.clob_connected \/ ~m.realtime_connected
        THEN Reconnect(w, "loop")
        ELSE IF ready = {} \/ ~w.env.wait_takes_coroutines
        THEN Suspend(w, "loop", "loop_sleep", LOOP_TIMEOUT)
        ELSE Suspend(
                [w EXCEPT !.tasks = [t \in TaskIds |->
                    IF t \in ready
                    THEN [IdleTask EXCEPT !.pc = "recv", !.op = "receive"]
                    ELSE w.tasks[t]]],
                "loop", "wait", LOOP_TIMEOUT)

\* a mutant of the loop: the pending receive tasks are not cancelled, the loop
\* forgets them and they run on
WaitReturnsLeavesPending(w) ==
    LoopTop([w EXCEPT !.tasks = [t \in TaskIds |->
                IF t \in Sockets THEN IdleTask
                ELSE IF t = "loop" THEN [w.tasks[t] EXCEPT !.timer = None]
                ELSE w.tasks[t]]])

\* asyncio.wait returns: the pending receive tasks are cancelled, the results and
\* exceptions of the finished ones are not looked at.  A cancelled task is
\* thrown CancelledError at its await the next time the event loop runs it,
\* which is before the tasks of the next pass run: the handling of its frame
\* ends there, no `except Exception` catches it.
WaitReturns(w) ==
    LoopTop([w EXCEPT !.tasks = [t \in TaskIds |->
                IF t \in Sockets THEN IdleTask
                ELSE IF t = "loop" THEN [w.tasks[t] EXCEPT !.timer = None]
                ELSE w.tasks[t]],
                      !.env.log = [no \in 1..Len(@) |->
                          IF \E t \in Sockets : w.tasks[t].pc = "callback" /\ w.tasks[t].no = no
                          THEN [@[no] EXCEPT !.cancelled = TRUE] ELSE @[no]]])

\* reconnect() has returned to the task that awaited it
AfterReconnect(w, p) ==
    IF w.tasks[p].op = "loop" THEN LoopTop(w) ELSE Done(w, p)

\* reconnect(): `except Exception`
ReconnectFailed(w, p) ==
    AfterReconnect([w EXCEPT !.manager.reconnect_attempts = @ + 1], p)

RECURSIVE ResubscribeNext(_, _)
\* _resubscribe_all: `for sub in self.subscriptions.values()` from the iterator's
\* position on, up to the next send that suspends.  The dict iterator raises
\* RuntimeError when the dict has changed size; a send that raises is logged.
ResubscribeNext(w, p) ==
    LET subs == w.manager.subscriptions
        it == w.tasks[p].it
    IN  IF Len(subs) # w.tasks[p].it_len
        THEN ReconnectFailed(w, p)
        ELSE IF it >= Len(subs)
        THEN AfterReconnect([w EXCEPT !.manager.reconnect_attempts = 0], p)
        ELSE IF SendOutcome(w.manager, subs[it + 1]) = "sent"
        THEN Suspend(Sent([w EXCEPT !.tasks[p].it = it + 1], p,
                          SocketOf(subs[it + 1].channel), "subscribe", subs[it + 1]),
                     p, "resubscribe_send", None)
        ELSE ResubscribeNext([w EXCEPT !.tasks[p].it = it + 1], p)

\* connect() has returned
AfterConnect(w, p) ==
    IF w.tasks[p].op = "connect"
    THEN Done(w, p)
    ELSE ResubscribeNext(
            [w EXCEPT !.tasks[p].it = 0,
                      !.tasks[p].it_len = Len(w.manager.subscriptions),
                      \* history: the ids registered when _resubscribe_all begins
                      !.tasks[p].args = IF "begun" \in keep
                                        THEN <<Ids(w.manager.subscriptions)>> ELSE @], p)

\* connect(): `except Exception`: connection_errors += 1 and raise
ConnectFailed(w, p) ==
    LET w1 == [w EXCEPT !.manager.connection_errors = @ + 1]
    IN  IF w.tasks[p].op = "connect"
        THEN Raise(w1, p, "ConnectError")
        ELSE ReconnectFailed(w1, p)

\* `self.realtime_ws = await websockets.connect(...)`
ConnectRealtime(w, p) == Suspend(w, p, "connect_realtime", None)

\* websockets.connect of _connect_clob has returned a socket
ClobOpened(w, p) ==
    LET w1 == [w EXCEPT !.manager.clob_ws = "open", !.manager.clob_connected = TRUE]
    IN  IF w.manager.has_api_credentials
        THEN Suspend(Sent(w1, p, "clob", "auth", NoSub), p, "auth_recv", AUTH_TIMEOUT)
        ELSE ConnectRealtime(w1, p)

\* a mutant of the authentication: any end of the exchange authenticates
AuthenticatedAnyway(w, p, ok) ==
    Suspend([w EXCEPT !.manager.authenticated = TRUE, !.tasks[p].timer = None],
            p, "connect_realtime", None)

\* _authenticate_clob ends: authenticated is set and _connect_clob returns
Authenticated(w, p, ok) ==
    ConnectRealtime([w EXCEPT !.manager.authenticated = ok, !.tasks[p].timer = None], p)

\* websockets.connect has returned or raised, for the socket the task is opening
Opened(w, p, ok) ==
    IF w.tasks[p].pc = "connect_clob"
    THEN IF ok THEN ClobOpened(w, p)
         ELSE ConnectFailed([w EXCEPT !.manager.clob_connected = FALSE], p)
    ELSE IF ok
         THEN AfterConnect([w EXCEPT !.manager.realtime_ws = "open",
                                     !.manager.realtime_connected = TRUE], p)
         ELSE ConnectFailed([w EXCEPT !.manager.realtime_connected = FALSE], p)

\* connect() up to `self.clob_ws = await websockets.connect(...)`
Connect(w, p) == Suspend(w, p, "connect_clob", None)

\* a mutant of disconnect: the registry is dropped with the connections
AfterDisconnectDropsRegistry(w, p) ==
    IF w.tasks[p].op \in {"disconnect", "stop"}
    THEN Done([w EXCEPT !.manager.subscriptions = <<>>], p)
    ELSE Connect([w EXCEPT !.manager.subscriptions = <<>>], p)

\* disconnect() has returned, to disconnect's or stop_background_task's caller
\* or to reconnect()
AfterDisconnect(w, p) ==
    IF w.tasks[p].op \in {"disconnect", "stop"} THEN Done(w, p) ELSE Connect(w, p)

\* a mutant of disconnect: the flag is reset only after a socket was closed
DisconnectRealtimeIfOpen(w, p) ==
    IF w.manager.realtime_ws \in {"open", "closing"}
    THEN Suspend([w EXCEPT !.manager.realtime_ws = "closing"], p, "close_realtime", None)
    ELSE AfterDisconnect(w, p)

\* disconnect(): "Close real-time connection"
DisconnectRealtime(w, p) ==
    IF w.manager.realtime_ws \in {"open", "closing"}
    THEN Suspend([w EXCEPT !.manager.realtime_ws = "closing"], p, "close_realtime", None)
    ELSE AfterDisconnect([w EXCEPT !.manager.realtime_connected = FALSE], p)

\* disconnect(): "Close CLOB connection"
Disconnect(w, p) ==
    IF w.manager.clob_ws \in {"open", "closing"}
    THEN Suspend([w EXCEPT !.manager.clob_ws = "closing", !.tasks[p].timer = None],
                 p, "close_clob", None)
    ELSE DisconnectRealtime([w EXCEPT !.manager.clob_connected = FALSE,
                                      !.manager.authenticated = FALSE,
                                      !.tasks[p].timer = None], p)

\* a mutant of stop_background_task: a loop that has not ended in time is left running
GaveUpWaiting(w, p) == Disconnect(w, p)

\* stop_background_task: the 5 s of wait_for are over and the loop has not ended.
\* wait_for cancels the task and waits until it has ended cancelled (no handler
\* of the loop catches CancelledError), then raises TimeoutError; the cancel()
\* in the except clause finds the task done.  disconnect() follows.
TimedOut(w, p) ==
    Disconnect([w EXCEPT !.tasks["loop"] = [IdleTask EXCEPT !.pc = "cancelled", !.op = "loop"]],
               p)

\* stop_background_task() up to its first suspension
StopBackgroundTask(w, p) ==
    LET w1 == [w EXCEPT !.manager.should_run = FALSE]
    IN  CASE w.tasks["loop"].pc = "idle" -> Disconnect(w1, p)
          [] w.tasks["loop"].pc = "stopped" -> Disconnect(w1, p)
          [] w.tasks["loop"].pc = "cancelled" -> Raise(w1, p, "CancelledError")
          [] OTHER -> Suspend(w1, p, "stop_wait", STOP_TIMEOUT)

\* the socket s is closed for good: a recv pending on it raises ConnectionClosed,
\* which _receive_*_messages logs and raises again
SocketClosed(w, s) ==
    [w EXCEPT !.manager = SetWs(@, s, "closed"),
              !.tasks[s] = IF @.pc = "recv" THEN [@ EXCEPT !.pc = "failed"] ELSE @]

\* `await ws.close()` of disconnect has returned
Closed(w, p) ==
    IF w.tasks[p].pc = "close_clob"
    THEN DisconnectRealtime([SocketClosed(w, "clob") EXCEPT
                                !.manager.clob_connected = FALSE,
                                !.manager.authenticated = FALSE], p)
    ELSE AfterDisconnect([SocketClosed(w, "realtime") EXCEPT
                                !.manager.realtime_connected = FALSE], p)

\* the timers of the sleeping tasks
Timers == {tasks[p].timer : p \in TaskIds} \ {None}
MinOf(S) == CHOOSE x \in S : \A y \in S : x <= y

(***************************************************************************)
(* Initial states                                                          *)
(***************************************************************************)
\* RateLimiter.__init__ at time 0; k names the histories that are kept
InitRl(k) ==
    /\ keep = k
    /\ now = 0
    /\ buckets = [c \in Categories |-> NewBucket(c, 0)]
    /\ backoff_429 = <<>>
    /\ backoff_lock = FreeLock
    /\ callers = [p \in Callers |-> IdleCaller]
    /\ granted = [t \in 0..MaxTime |-> 0]
    /\ durations = [c \in Categories |-> <<>>]
    /\ n429 = 0
    /\ tools = [p \in Callers |-> IdleTool]

\* WebSocketManager.__init__, the manager not used
InitWs ==
    /\ manager = NewManager(FALSE, FALSE, FALSE)
    /\ tasks = [p \in TaskIds |-> IdleTask]
    /\ env = NewEnv(TRUE)

InitLimiter == InitRl({}) /\ InitWs

\* a caller awaits bucket.acquire(n)
CallBucketAcquire(p, c, n) ==
    /\ callers[p].pc = "idle"
    /\ Becomes(BucketAcquire(Started(p, "bucket_acquire", c, n, FALSE, None), p, now))
    /\ UNCHANGED <<now, n429, keep, tools>>
    /\ UNCHANGED wsVars

\* a caller awaits rate_limiter.acquire(category, n, retry_on_429)
CallAcquire(p, c, n, retry) ==
    /\ callers[p].pc = "idle"
    /\ Becomes(LimiterAcquire(Started(p, "acquire", c, n, retry, None), p, now))
    /\ UNCHANGED <<now, n429, keep, tools>>
    /\ UNCHANGED wsVars

\* a caller awaits rate_limiter.handle_429_error(category, retry_after)
CallHandle429(p, c, ra) ==
    /\ callers[p].pc = "idle"
    /\ n429' = n429 + 1
    /\ Becomes(Handle429(Started(p, "handle_429_error", c, 0, FALSE, ra), p, now))
    /\ UNCHANGED <<now, keep, tools>>
    /\ UNCHANGED wsVars

\* _backoff_lock is released and its first waiter resumes
BackoffLockGranted(p) ==
    /\ callers[p].pc \in {"backoff_lock", "h429_lock"}
    /\ LockWoken(backoff_lock, p)
    /\ LET s == [Cur EXCEPT !.backoff_lock = LockDequeue(@, p)]
       IN  IF callers[p].pc = "backoff_lock"
           THEN Becomes(BackoffCheck(s, p, now))
           ELSE Becomes(Handle429Body(s, p, now))
    /\ UNCHANGED <<now, n429, keep, tools>>
    /\ UNCHANGED wsVars

\* asyncio.sleep(wait_time) in RateLimiter.acquire ends
BackoffSleepDone(p) ==
    /\ callers[p].pc = "backoff_sleep"
    /\ now >= callers[p].wake
    /\ Becomes(BucketAcquire(
           [Cur EXCEPT !.backoff_lock = LockRelease(@),
                       !.callers[p].total_wait = @ + callers[p].sleep_time],
           p, now))
    /\ UNCHANGED <<now, n429, keep, tools>>
    /\ UNCHANGED wsVars

\* the bucket's lock is released and its first waiter resumes
BucketLockGranted(p) ==
    /\ callers[p].pc = "bucket_lock"
    /\ LockWoken(buckets[callers[p].cat].lock, p)
    /\ Becomes(BucketLoop(
           [Cur EXCEPT !.buckets[callers[p].cat].lock = LockDequeue(@, p)], p, now))
    /\ UNCHANGED <<now, n429, keep, tools>>
    /\ UNCHANGED wsVars

\* asyncio.sleep(sleep_time) in TokenBucket.acquire ends
BucketSleepDone(p) ==
    /\ callers[p].pc = "bucket_sleep"
    /\ now >= callers[p].wake
    /\ Becomes(BucketLoop(
           [Cur EXCEPT !.callers[p].wait_time = @ + callers[p].sleep_time], p, now))
    /\ UNCHANGED <<now, n429, keep, tools>>
    /\ UNCHANGED wsVars

\* the caller takes the returned value and may call again
Return(p) ==
    /\ callers[p].pc = "done"
    /\ callers' = [callers EXCEPT ![p] = IdleCaller]
    /\ UNCHANGED <<now, buckets, backoff_429, backoff_lock, granted, keep, durations, n429, tools>>
    /\ UNCHANGED wsVars

\* TokenBucket.available_tokens
AvailableTokens(c) ==
    /\ buckets' = [buckets EXCEPT ![c] = Refill(c, @, now)]
    /\ UNCHANGED <<now, backoff_429, backoff_lock, callers, granted, keep, durations, n429, tools>>
    /\ UNCHANGED wsVars

\* the monotonic clock advances
Tick ==
    /\ now < MaxTime
    /\ now' = now + 1
    /\ UNCHANGED <<buckets, backoff_429, backoff_lock, callers, granted, keep,
                   durations, n429, tools>>
    /\ UNCHANGED wsVars

(***************************************************************************)
(* One TokenBucket and its concurrent callers                              *)
(***************************************************************************)
NextBucket ==
    \/ \E p \in Callers, n \in 1..MaxTokens : CallBucketAcquire(p, "market_data", n)
    \/ \E p \in Callers : BucketLockGranted(p)
    \/ \E p \in Callers : BucketSleepDone(p)
    \/ \E p \in Callers : Return(p)
    \/ AvailableTokens("market_data")
    \/ Tick

InitBucket == InitRl({"grants"}) /\ InitWs

SpecBucket == InitBucket /\ [][NextBucket]_vars

\* C1: in every reachable state of a TokenBucket driven by acquire(n) calls with
\* 1 <= n <= max_tokens and available_tokens() reads, 0 <= tokens <= max_tokens.
C1_TokensWithinCapacity ==
    \A c \in Categories : 0 <= buckets[c].tokens /\ buckets[c].tokens <= max_tokens(c)

\* an acquire that had to sleep has been granted the last tokens, and the bucket
\* has since refilled to its cap
C1_Witness ==
    /\ \E p \in Callers : callers[p].pc = "done" /\ callers[p].ret > 0
    /\ buckets["market_data"].tokens = max_tokens("market_data")
    /\ buckets["market_data"].last_refill > 1

RECURSIVE GrantedIn(_, _)
\* the tokens granted by the acquire calls that returned in the window [t1, t2]
GrantedIn(t1, t2) == IF t1 > t2 THEN 0 ELSE granted[t1] + GrantedIn(t1 + 1, t2)

\* C2: over any window of length T the tokens granted by the acquire calls that
\* return inside it never exceed C + R*T, for any number of concurrent callers.
C2_WindowBound ==
    \A t1 \in 0..now : \A t2 \in t1..now :
        GrantedIn(t1, t2) <= max_tokens("market_data") + refill_rate("market_data") * (t2 - t1)

\* a window over which the grants reach the bound C + R*T exactly, T > 0
C2_Witness ==
    \E t1 \in 0..now : \E t2 \in (t1 + 1)..now :
        GrantedIn(t1, t2) = max_tokens("market_data") + refill_rate("market_data") * (t2 - t1)

(***************************************************************************)
(* The RateLimiter: acquire and handle_429_error on two categories         *)
(***************************************************************************)
RetryAfters == {None, 2}

NextLimiter ==
    \/ \E p \in Callers, c \in Categories, retry \in BOOLEAN :
            CallAcquire(p, c, 1, retry)
    \/ \E p \in Callers, c \in Categories, ra \in RetryAfters :
            n429 < Max429 /\ CallHandle429(p, c, ra)
    \/ \E p \in Callers : BackoffLockGranted(p)
    \/ \E p \in Callers : BackoffSleepDone(p)
    \/ \E p \in Callers : BucketLockGranted(p)
    \/ \E p \in Callers : BucketSleepDone(p)
    \/ \E p \in Callers : Return(p)
    \/ Tick

SpecLimiter == InitLimiter /\ [][NextLimiter]_vars

\* C3: an acquire(B) for which B has no active backoff and enough tokens returns
\* without waiting, whatever is in progress on another category A: it is never
\* queued behind an acquire(A) that is still waiting out A's 429 backoff.
C3_NoCrossCategoryBlocking ==
    \A p \in Callers, q \in Callers :
        ~ /\ callers[p].op = "acquire" /\ callers[p].clear
          /\ callers[p].pc = "backoff_lock"
          /\ backoff_lock.holder = q
          /\ callers[q].op = "acquire" /\ callers[q].cat # callers[p].cat
          /\ callers[q].pc = "backoff_sleep" /\ callers[q].wake > now

(***************************************************************************)
(* handle_429_error alone: the chain of backoff durations                  *)
(***************************************************************************)
InitBackoff == InitRl({"chain"}) /\ InitWs

NextBackoff ==
    \/ \E c \in Categories, ra \in {None, 0} : n429 < MaxChain /\ CallHandle429(1, c, ra)
    \/ Return(1)
    \/ Tick

SpecBackoff == InitBackoff /\ [][NextBackoff]_vars

\* C4: handle_429_error calls without retry_after, each issued before the
\* previous backoff expired, set non-decreasing durations, none above 60 s.
C4_BackoffNonDecreasing ==
    \A c \in Categories :
        /\ \A i \in 1..Len(durations[c]) : durations[c][i] <= MAX_BACKOFF
        /\ Len(durations[c]) = 2 => durations[c][2] >= durations[c][1]

(***************************************************************************)
(* The manager's registry and router: subscribe, unsubscribe, handle_message *)
(***************************************************************************)
\* the host awaits manager.subscribe(...)
CallSubscribe(p, event_type, channel, market_ids, token_ids, callback_type) ==
    /\ tasks[p].pc = "idle"
    /\ env.next_id <= MaxSubs
    /\ WBecomes(Subscribe(
           [WCur EXCEPT !.tasks[p] =
               [IdleTask EXCEPT !.op = "subscribe",
                                !.args = IF "before" \in keep THEN <<channel>> ELSE <<>>,
                                !.before = IF "before" \in keep THEN <<manager>> ELSE <<>>]],
           p, event_type, channel, market_ids, token_ids, callback_type))
    /\ UNCHANGED rlVars

\* the send of the subscribe frame completes and subscribe returns the id
SubscribeSendDone(p) ==
    /\ tasks[p].pc = "subscribe_send"
    /\ WBecomes(Done(WCur, p))
    /\ UNCHANGED rlVars

\* the host awaits manager.unsubscribe(subscription_id)
CallUnsubscribe(p, subscription_id) ==
    /\ tasks[p].pc = "idle"
    /\ WBecomes(Unsubscribe(
           [WCur EXCEPT !.tasks[p] =
               [IdleTask EXCEPT !.op = "unsubscribe", !.id = subscription_id,
                                !.before = IF "before" \in keep
                                           THEN <<Refs(manager.subscriptions),
                                                  manager.market_subscriptions,
                                                  manager.token_subscriptions>>
                                           ELSE <<>>]],
           p, subscription_id))
    /\ UNCHANGED rlVars

\* the send of the unsubscribe frame completes and unsubscribe goes on
UnsubscribeSendDone(p) ==
    /\ tasks[p].pc = "unsubscribe_send"
    /\ WBecomes(Remove(WCur, p, tasks[p].sub))
    /\ UNCHANGED rlVars

\* the host takes the result of its call and may call again
Returns(p) ==
    /\ tasks[p].pc = "done"
    /\ tasks' = [tasks EXCEPT ![p] = IdleTask]
    /\ UNCHANGED <<manager, env>>
    /\ UNCHANGED rlVars

\* handle_message(channel, data) is called with a parsed frame
CallHandleMessage(t, data) ==
    /\ tasks[t].pc = "idle"
    /\ env.frames < MaxFrames
    /\ WBecomes(HandleMessage(
           [WCur EXCEPT !.tasks[t] = [IdleTask EXCEPT !.op = "handle_message"]], t, data))
    /\ UNCHANGED rlVars

\* the callback a handler awaits returns (or raises)
CallbackReturns(t, raises) ==
    /\ tasks[t].pc = "callback"
    /\ WBecomes(AfterCallback(WCur, t, raises))
    /\ UNCHANGED rlVars

\* the peer closes socket s
PeerCloses(s) ==
    /\ Ws(manager, s) = "open"
    /\ WBecomes(SocketClosed(WCur, s))
    /\ UNCHANGED rlVars

\* the manager after connect() has opened both sockets, no API credentials
ConnectedManager(notification_callback, log_callback) ==
    [NewManager(notification_callback, log_callback, FALSE) EXCEPT
        !.clob_ws = "open", !.realtime_ws = "open",
        !.clob_connected = TRUE, !.realtime_connected = TRUE]

InitRouter ==
    /\ InitRl({"log", "delivered"})
    /\ \E n \in BOOLEAN : manager = ConnectedManager(n, TRUE)
    /\ tasks = [p \in TaskIds |-> IdleTask]
    /\ env = NewEnv(TRUE)

\* the frames and the subscriptions the router is driven with
RouterFrames ==
    {Frame(PRICE_CHANGE, NoStr, "A", NoStr, "T1", "0.55"),
     Frame(NoStr, PRICE_CHANGE, "B", NoStr, "T1", "0.60"),
     Frame(PRICE_CHANGE, NoStr, "A", NoStr, "T1", "abc"),
     Frame(TRADE, NoStr, NoStr, "A", NoStr, "0.55"),
     Frame("tick_size_change", NoStr, "A", NoStr, "T1", NoStr),
     Frame(NoStr, NoStr, "A", NoStr, "T1", "0.55")}

RouterSubs ==
    {<<PRICE_CHANGE, NoList, "notification">>, <<PRICE_CHANGE, List({"A"}), "notification">>,
     <<PRICE_CHANGE, List({"A"}), "log">>, <<TRADE, NoList, "notification">>}

NextRouter ==
    \/ \E sub \in RouterSubs :
            CallSubscribe("api", sub[1], CLOB_MARKET, sub[2], NoList, sub[3])
    \/ SubscribeSendDone("api")
    \/ \E id \in 1..MaxSubs : CallUnsubscribe("api", id)
    \/ UnsubscribeSendDone("api")
    \/ Returns("api")
    \/ \E data \in RouterFrames : CallHandleMessage("clob", data)
    \/ CallbackReturns("clob", FALSE)
    \/ PeerCloses("clob")

SpecRouter == InitRouter /\ [][NextRouter]_vars

\* the subscription can be served: its callback_type names a callback the host supplied
Deliverable(sub) ==
    \/ sub.callback_type = "notification" /\ manager.notification_callback
    \/ sub.callback_type = "log" /\ manager.log_callback

\* the deliveries that handling frame number no made to subscription id
DeliveriesOf(no, id) ==
    {i \in 1..Len(env.delivered) : env.delivered[i].no = no /\ env.delivered[i].sub.id = id}

\* C7: a price_change frame carrying market id M is delivered only to price_change
\* subscriptions whose market filter is absent or contains M, each delivery carrying
\* the frame's price; a subscription filtered to other markets gets no delivery of
\* it, and one filtered to a list containing M (no token filter, its callback
\* supplied) has got exactly one once the frame is handled.
C7_RoutingPrecision ==
    \A no \in 1..Len(env.log) :
        LET data == env.log[no].data
        IN  (Discriminator(data) = PRICE_CHANGE /\ StrTruthy(data.market)) =>
              /\ \A i \in 1..Len(env.delivered) :
                    env.delivered[i].no = no =>
                      /\ env.delivered[i].sub.type = PRICE_CHANGE
                      /\ \/ ~ListTruthy(env.delivered[i].sub.market_ids)
                         \/ data.market \in env.delivered[i].sub.market_ids.ids
                      /\ env.delivered[i].price = ParsePrice(data.price)
              /\ \A k \in 1..Len(manager.subscriptions) :
                    LET sub == manager.subscriptions[k]
                    IN  (/\ sub.id < env.log[no].next_id
                         /\ sub.type = PRICE_CHANGE
                         /\ ListTruthy(sub.market_ids)
                         /\ ~ListTruthy(sub.token_ids)) =>
                            IF data.market \in sub.market_ids.ids
                            THEN /\ Cardinality(DeliveriesOf(no, sub.id)) <= 1
                                 /\ (/\ env.log[no].ended
                                     /\ ParsePrice(data.price) # BadPrice
                                     /\ Deliverable(sub)) =>
                                        Cardinality(DeliveriesOf(no, sub.id)) = 1
                            ELSE DeliveriesOf(no, sub.id) = {}

\* a subscription filtered to market A has seen a frame for B and a frame for A
\* handled: no delivery of the first, one delivery of the second with its price
C7_Witness ==
    \E k \in 1..Len(manager.subscriptions), b \in 1..Len(env.log), a \in 1..Len(env.log) :
        LET sub == manager.subscriptions[k]
        IN  /\ sub.market_ids = List({"A"}) /\ sub.type = PRICE_CHANGE
            /\ sub.id < env.log[b].next_id /\ sub.id < env.log[a].next_id
            /\ env.log[b].ended /\ env.log[a].ended
            /\ Discriminator(env.log[b].data) = PRICE_CHANGE /\ env.log[b].data.market = "B"
            /\ Discriminator(env.log[a].data) = PRICE_CHANGE /\ env.log[a].data.market = "A"
            /\ DeliveriesOf(b, sub.id) = {}
            /\ \E i \in DeliveriesOf(a, sub.id) : env.delivered[i].price = 55

(***************************************************************************)
(* subscribe and unsubscribe calls on the registry and its two indexes     *)
(***************************************************************************)
InitRegistry ==
    /\ InitRl({"before"})
    /\ manager = ConnectedManager(TRUE, TRUE)
    /\ tasks = [p \in TaskIds |-> IdleTask]
    /\ env = NewEnv(TRUE)

\* <<channel, market_ids, token_ids>> of the subscriptions made
RegistrySubs ==
    {<<CLOB_MARKET, List({"A"}), NoList>>, <<CLOB_MARKET, NoList, List({"T1"})>>,
     <<ACTIVITY, List({"A", "B"}), List({"T1", "T2"})>>, <<CRYPTO_PRICES, List({}), NoList>>}

NextRegistry ==
    \/ \E sub \in RegistrySubs :
            CallSubscribe("api", PRICE_CHANGE, sub[1], sub[2], sub[3], "notification")
    \/ SubscribeSendDone("api")
    \/ \E id \in 1..MaxSubs : CallUnsubscribe("api", id)
    \/ UnsubscribeSendDone("api")
    \/ Returns("api")
    \/ \E s \in Sockets : PeerCloses(s)

SpecRegistry == InitRegistry /\ [][NextRegistry]_vars

\* C9: unsubscribe never raises; it returns True exactly when the id was
\* registered at the call, and then the registry is the one before the call
\* without that id; when it returns False (the id was removed before, or never
\* registered) the registry and both indexes are as before the call.
C9_IdempotentUnsubscribe ==
    LET call == tasks["api"]
    IN  (call.op = "unsubscribe" /\ call.pc = "done") =>
          /\ call.exc = "none"
          /\ call.ok <=> call.id \in Ids(call.before[1])
          /\ call.id \notin Ids(manager.subscriptions)
          /\ call.ok => Refs(manager.subscriptions) = Without(call.before[1], call.id)
          /\ ~call.ok => /\ Refs(manager.subscriptions) = call.before[1]
                         /\ manager.market_subscriptions = call.before[2]
                         /\ manager.token_subscriptions = call.before[3]

\* a second unsubscribe of an id has returned False, the socket being closed
C9_Witness ==
    /\ tasks["api"].op = "unsubscribe" /\ tasks["api"].pc = "done"
    /\ ~tasks["api"].ok /\ tasks["api"].exc = "none"
    /\ tasks["api"].id \in env.removed
    /\ manager.clob_ws = "closed"

RECURSIVE SumOf(_, _)
\* the sum of the counters f over the keys S
SumOf(f, S) ==
    IF S = {} THEN 0
    ELSE LET x == CHOOSE x \in S : TRUE IN f[x] + SumOf(f, S \ {x})

\* the subscription matches the frame, as the matching rule is stated
MatchesFrame(sub, data) ==
    /\ sub.type = Discriminator(data)
    /\ ~ListTruthy(sub.market_ids) \/ data.market \in sub.market_ids.ids
    /\ ~ListTruthy(sub.token_ids) \/ data.asset_id \in sub.token_ids.ids

\* C10: total_events_received is always the sum of events_by_type; and once K
\* frames, all of type price_change, have been handled and no others, both
\* total_events_received and events_by_type["price_change"] are K and every
\* subscription that matches all K frames (each a frame whose fields parse, the
\* subscription registered before it) has events_received = K.
C10_StatisticsAccurate ==
    /\ manager.total_events_received = SumOf(manager.events_by_type, EventNames)
    /\ (\A no \in 1..Len(env.log) :
            env.log[no].ended /\ Discriminator(env.log[no].data) = PRICE_CHANGE) =>
          /\ manager.total_events_received = Len(env.log)
          /\ manager.events_by_type[PRICE_CHANGE] = Len(env.log)
          /\ \A k \in 1..Len(manager.subscriptions) :
                LET sub == manager.subscriptions[k]
                IN  (\A no \in 1..Len(env.log) :
                        /\ sub.id < env.log[no].next_id
                        /\ ParsePrice(env.log[no].data.price) # BadPrice
                        /\ MatchesFrame(sub, env.log[no].data)) =>
                            sub.events_received = Len(env.log)

\* two price_change frames and no others have been handled, and a subscription
\* that matches both has counted both
C10_Witness ==
    /\ Len(env.log) = 2
    /\ \A no \in 1..2 : env.log[no].ended /\ Discriminator(env.log[no].data) = PRICE_CHANGE
    /\ manager.total_events_received = 2
    /\ \E k \in 1..Len(manager.subscriptions) :
          /\ manager.subscriptions[k].events_received = 2
          /\ \A no \in 1..2 : MatchesFrame(manager.subscriptions[k], env.log[no].data)

(***************************************************************************)
(* The connection supervisor: connect, disconnect, reconnect               *)
(***************************************************************************)
\* the host awaits manager.connect()
CallConnect(p) ==
    /\ tasks[p].pc = "idle"
    /\ WBecomes(Connect([WCur EXCEPT !.tasks[p] = [IdleTask EXCEPT !.op = "connect"]], p))
    /\ UNCHANGED rlVars

\* the host awaits manager.disconnect()
CallDisconnect(p) ==
    /\ tasks[p].pc = "idle"
    /\ WBecomes(Disconnect(
           [WCur EXCEPT !.tasks[p] =
               [IdleTask EXCEPT !.op = "disconnect",
                                !.before = IF "before" \in keep THEN <<manager>> ELSE <<>>]],
           p))
    /\ UNCHANGED rlVars

\* the host awaits manager.reconnect()
CallReconnect(p) ==
    /\ tasks[p].pc = "idle"
    /\ WBecomes(Reconnect(
           [WCur EXCEPT !.tasks[p] =
               [IdleTask EXCEPT !.op = "reconnect",
                                !.before = IF "before" \in keep
                                           THEN <<Refs(manager.subscriptions),
                                                  manager.clob_connected,
                                                  manager.realtime_connected>>
                                           ELSE <<>>]], p))
    /\ UNCHANGED rlVars

\* asyncio.sleep(delay) of reconnect ends
ReconnectSleepDone(p) ==
    /\ tasks[p].pc = "reconnect_sleep"
    /\ tasks[p].timer = 0
    /\ WBecomes(Disconnect(WCur, p))
    /\ UNCHANGED rlVars

\* `await ws.close()` returns
CloseDone(p) ==
    /\ tasks[p].pc \in {"close_clob", "close_realtime"}
    /\ WBecomes(Closed(WCur, p))
    /\ UNCHANGED rlVars

\* websockets.connect returns a socket (ok) or raises
ConnectDone(p, ok) ==
    /\ tasks[p].pc \in {"connect_clob", "connect_realtime"}
    /\ WBecomes(Opened(WCur, p, ok))
    /\ UNCHANGED rlVars

\* the response to the auth frame arrives, its "type" being `type`
AuthReplied(p, type) ==
    /\ tasks[p].pc = "auth_recv"
    /\ manager.clob_ws = "open"
    /\ WBecomes(Authenticated(
           [WCur EXCEPT !.tasks[p].args = IF "before" \in keep THEN <<type>> ELSE <<>>],
           p, type = "authenticated"))
    /\ UNCHANGED rlVars

\* asyncio.wait_for times out, or recv raises on a socket the peer has closed
AuthFailed(p) ==
    /\ tasks[p].pc = "auth_recv"
    /\ tasks[p].timer = 0 \/ manager.clob_ws # "open"
    /\ WBecomes(Authenticated(
           [WCur EXCEPT !.tasks[p].args =
               IF "before" \in keep
               THEN <<IF manager.clob_ws # "open" THEN "ConnectionClosed" ELSE "TimeoutError">>
               ELSE <<>>],
           p, FALSE))
    /\ UNCHANGED rlVars

\* the send of a subscribe frame by _resubscribe_all completes
ResubscribeSendDone(p) ==
    /\ tasks[p].pc = "resubscribe_send"
    /\ WBecomes(ResubscribeNext(WCur, p))
    /\ UNCHANGED rlVars

\* time passes, up to the next timer that is due
Elapse ==
    /\ Timers # {}
    /\ 0 \notin Timers
    /\ tasks' = [p \in TaskIds |->
                    IF tasks[p].timer = None THEN tasks[p]
                    ELSE [tasks[p] EXCEPT !.timer = @ - MinOf(Timers)]]
    /\ UNCHANGED <<manager, env>>
    /\ UNCHANGED rlVars

InitSupervisor ==
    /\ InitRl({"before", "resent"})
    /\ \E credentials \in BOOLEAN : manager = NewManager(TRUE, TRUE, credentials)
    /\ tasks = [p \in TaskIds |-> IdleTask]
    /\ env = NewEnv(TRUE)

NextSupervisor ==
    \/ CallConnect("api")
    \/ CallDisconnect("api")
    \/ manager.reconnect_count < MaxReconnects /\ CallReconnect("api")
    \/ \E channel \in {CLOB_MARKET, CLOB_USER, ACTIVITY} :
            CallSubscribe("api", PRICE_CHANGE, channel, NoList, NoList, "notification")
    \/ SubscribeSendDone("api")
    \/ ReconnectSleepDone("api")
    \/ CloseDone("api")
    \/ \E ok \in BOOLEAN :
            (ok \/ manager.connection_errors < MaxErrors) /\ ConnectDone("api", ok)
    \/ \E type \in {"authenticated", "error"} : AuthReplied("api", type)
    \/ AuthFailed("api")
    \/ ResubscribeSendDone("api")
    \/ Returns("api")
    \/ \E s \in Sockets : PeerCloses(s)
    \/ Elapse

SpecSupervisor == InitSupervisor /\ [][NextSupervisor]_vars

\* how many subscribe frames the call has sent for subscription id
Resent(call, id) == Cardinality({i \in 1..Len(call.resent) : call.resent[i] = id})

\* C6: when reconnect() returns with both channels reopened (and still open),
\* every subscription registered when it was called is still in the registry
\* and exactly one subscribe frame has been sent for it during that reconnect.
C6_ResubscribeOnReconnect ==
    LET call == tasks["api"]
    IN  (/\ call.op = "reconnect" /\ call.pc = "done"
         /\ manager.clob_connected /\ manager.realtime_connected
         /\ manager.clob_ws = "open" /\ manager.realtime_ws = "open") =>
            /\ Refs(manager.subscriptions) = call.before[1]
            /\ \A i \in 1..Len(call.before[1]) : Resent(call, call.before[1][i].id) = 1
            /\ Len(call.resent) = Len(call.before[1])
            /\ manager.reconnect_attempts = 0

\* two subscriptions were active, disconnect() had been called, and reconnect()
\* has returned with both channels open
C6_Witness ==
    /\ tasks["api"].op = "reconnect" /\ tasks["api"].pc = "done"
    /\ manager.clob_ws = "open" /\ manager.realtime_ws = "open"
    /\ manager.clob_connected /\ manager.realtime_connected
    /\ Len(tasks["api"].before[1]) = 2
    /\ ~tasks["api"].before[2] /\ ~tasks["api"].before[3]
    /\ Len(tasks["api"].resent) = 2

\* C17: when disconnect() returns, clob_connected, realtime_connected and
\* authenticated are false whatever they were at the call, the registry is the
\* one at the call, and a disconnect() called on a manager that is already
\* disconnected leaves every field as it was.
C17_DisconnectResets ==
    LET call == tasks["api"]
    IN  (call.op = "disconnect" /\ call.pc = "done") =>
            LET before == call.before[1]
            IN  /\ call.exc = "none"
                /\ ~manager.clob_connected /\ ~manager.realtime_connected
                /\ ~manager.authenticated
                /\ manager.subscriptions = before.subscriptions
                /\ manager.market_subscriptions = before.market_subscriptions
                /\ manager.token_subscriptions = before.token_subscriptions
                /\ (/\ ~before.clob_connected /\ ~before.realtime_connected
                     /\ ~before.authenticated
                     /\ before.clob_ws # "open" /\ before.realtime_ws # "open") =>
                        manager = before

\* a manager that had been authenticated (it holds a CLOB_USER subscription) and
\* then disconnected has been disconnected once more
C17_Witness ==
    /\ tasks["api"].op = "disconnect" /\ tasks["api"].pc = "done"
    /\ \E k \in 1..Len(manager.subscriptions) : manager.subscriptions[k].channel = CLOB_USER
    /\ tasks["api"].before[1].clob_ws = "closed"
    /\ tasks["api"].before[1].realtime_ws = "closed"
    /\ ~tasks["api"].before[1].clob_connected
    /\ manager = tasks["api"].before[1]

\* C19: a subscribe() on channel CLOB_USER called while authenticated is false
\* raises RuntimeError, has sent no frame, and leaves the registry and both
\* indexes as they were.
C19_UserChannelNeedsAuthentication ==
    LET call == tasks["api"]
    IN  (/\ call.op = "subscribe" /\ call.pc = "done"
         /\ call.args[1] = CLOB_USER /\ ~call.before[1].authenticated) =>
            /\ call.exc = "RuntimeError"
            /\ call.resent = <<>>
            /\ manager.subscriptions = call.before[1].subscriptions
            /\ manager.market_subscriptions = call.before[1].market_subscriptions
            /\ manager.token_subscriptions = call.before[1].token_subscriptions

\* the CLOB channel is open and connected, the authentication was refused, and
\* a subscribe() on CLOB_USER has raised
C19_Witness ==
    /\ tasks["api"].op = "subscribe" /\ tasks["api"].pc = "done"
    /\ tasks["api"].args[1] = CLOB_USER
    /\ tasks["api"].exc = "RuntimeError"
    /\ manager.has_api_credentials /\ ~manager.authenticated
    /\ manager.clob_connected /\ manager.clob_ws = "open"

\* C18: with API credentials, once the exchange that follows the opening of
\* the CLOB channel is over and connect() goes on to the realtime channel
\* (_connect_clob has not raised), clob_connected is true, and authenticated is
\* true exactly when the response to the auth frame had type "authenticated":
\* it is false after any other response, the timeout and a receive error.
C18_AuthenticationOutcome ==
    LET call == tasks["api"]
    IN  (call.pc = "connect_realtime" /\ manager.has_api_credentials) =>
            /\ call.exc = "none"
            /\ call.args # <<>>
            /\ manager.clob_connected
            /\ manager.authenticated <=> call.args[1] = "authenticated"

\* the 5 s have passed without a response: connect() goes on, unauthenticated
C18_Witness ==
    /\ tasks["api"].pc = "connect_realtime" /\ manager.has_api_credentials
    /\ tasks["api"].args = <<"TimeoutError">>
    /\ ~manager.authenticated /\ manager.clob_connected

(***************************************************************************)
(* reconnect() called again and again, the endpoints refusing or accepting *)
(***************************************************************************)
InitReconnect ==
    /\ InitRl({})
    /\ manager = NewManager(TRUE, TRUE, FALSE)
    /\ tasks = [p \in TaskIds |-> IdleTask]
    /\ env = NewEnv(TRUE)

NextReconnect ==
    \/ manager.reconnect_count <= MaxAttempts /\ CallReconnect("api")
    \/ ReconnectSleepDone("api")
    \/ CloseDone("api")
    \/ \E ok \in BOOLEAN :
            (ok \/ manager.connection_errors < MaxAttempts) /\ ConnectDone("api", ok)
    \/ CallSubscribe("api", PRICE_CHANGE, CLOB_MARKET, NoList, NoList, "notification")
    \/ SubscribeSendDone("api")
    \/ ResubscribeSendDone("api")
    \/ Returns("api")
    \/ Elapse

SpecReconnect == InitReconnect /\ [][NextReconnect]_vars

\* C16: reconnect() sleeps min(1 * 2^reconnect_attempts, 60) seconds, the whole
\* of it, before it disconnects and connects; it returns without raising, with
\* reconnect_attempts 0 when both channels were opened and one more than before
\* when the attempt failed.
C16_ReconnectDelays ==
    [][LET call == tasks["api"]
           after == tasks'["api"]
           attempts == manager.reconnect_attempts
       IN  /\ (call.pc = "idle" /\ after.op = "reconnect") =>
                /\ after.pc = "reconnect_sleep"
                /\ after.timer = IF attempts >= 6 THEN 60 ELSE 2 ^ attempts
           /\ (call.pc = "reconnect_sleep" /\ after.pc # "reconnect_sleep") =>
                call.timer = 0
           /\ (call.op = "reconnect" /\ call.pc # "done" /\ after.pc = "done") =>
                /\ after.exc = "none"
                /\ manager'.reconnect_attempts =
                      IF manager'.clob_connected /\ manager'.realtime_connected
                      THEN 0 ELSE attempts + 1]_vars

\* seven attempts in a row have failed (delays 1, 2, 4, 8, 16, 32, 60) and the
\* eighth reconnect() sleeps 60 s again
C16_Witness ==
    /\ tasks["api"].op = "reconnect" /\ tasks["api"].pc = "reconnect_sleep"
    /\ manager.reconnect_attempts = 7 /\ manager.reconnect_count = 8
    /\ tasks["api"].timer = 60

\* C15: in connect() the two channels are opened independently: when the opening
\* of the CLOB channel has ended, failed or not, the call goes on (through the
\* authentication, with credentials) to open the realtime channel; and a
\* connect() that raises has incremented connection_errors by one.
C15_ChannelsOpenIndependently ==
    [][/\ (/\ tasks["api"].op = "connect"
           /\ tasks["api"].pc = "connect_clob"
           /\ tasks'["api"].pc # "connect_clob") =>
                tasks'["api"].pc \in {"auth_recv", "connect_realtime"}
       /\ (/\ tasks["api"].op = "connect"
           /\ tasks["api"].pc \in {"connect_clob", "connect_realtime"}
           /\ tasks'["api"].exc # "none") =>
                manager'.connection_errors = manager.connection_errors + 1]_vars

(***************************************************************************)
(* The background loop and its receive tasks                               *)
(***************************************************************************)
\* start_background_task(): no await before the task is created
StartBackgroundTask ==
    /\ tasks["loop"].pc \in {"idle", "stopped", "cancelled"}
    /\ manager' = [manager EXCEPT !.should_run = TRUE]
    /\ tasks' = [tasks EXCEPT !["loop"] = [IdleTask EXCEPT !.pc = "start", !.op = "loop"]]
    /\ UNCHANGED env
    /\ UNCHANGED rlVars

\* the task created for _background_loop runs for the first time
LoopStarts ==
    /\ tasks["loop"].pc = "start"
    /\ WBecomes(LoopTop(WCur))
    /\ UNCHANGED rlVars

\* asyncio.wait returns: a receive task has finished, or the timeout is due
LoopWaitDone ==
    /\ tasks["loop"].pc = "wait"
    /\ tasks["loop"].timer = 0 \/ \E s \in Sockets : tasks[s].pc \in {"done", "failed"}
    /\ WBecomes(WaitReturns(WCur))
    /\ UNCHANGED rlVars

\* asyncio.sleep(1.0) of the loop ends
LoopSleepDone ==
    /\ tasks["loop"].pc = "loop_sleep"
    /\ tasks["loop"].timer = 0
    /\ WBecomes(LoopTop([WCur EXCEPT !.tasks["loop"].timer = None]))
    /\ UNCHANGED rlVars

\* recv() of a receive task returns a frame, which is parsed and handled
Receive(s, data) ==
    /\ tasks[s].pc = "recv"
    /\ Ws(manager, s) = "open"
    /\ env.frames < MaxFrames
    /\ WBecomes(HandleMessage(WCur, s, data))
    /\ UNCHANGED rlVars

\* recv() of a receive task returns a message that is not JSON: json.loads
\* raises JSONDecodeError, which _receive_*_messages logs; handle_message is
\* not called and the receive task ends
ReceiveGarbage(s) ==
    /\ tasks[s].pc = "recv"
    /\ Ws(manager, s) = "open"
    /\ env.frames < MaxFrames
    /\ tasks' = [tasks EXCEPT ![s] = [IdleTask EXCEPT !.pc = "done", !.op = "receive"]]
    /\ env' = [env EXCEPT !.frames = @ + 1]
    /\ UNCHANGED manager
    /\ UNCHANGED rlVars

InitPump ==
    /\ InitRl({})
    /\ manager = NewManager(TRUE, TRUE, FALSE)
    /\ tasks = [p \in TaskIds |-> IdleTask]
    /\ \E wait_takes_coroutines \in BOOLEAN : env = NewEnv(wait_takes_coroutines)

PumpFrames ==
    {Frame(PRICE_CHANGE, NoStr, "A", NoStr, "T1", "0.55"),
     Frame(NoStr, NoStr, "A", NoStr, "T1", "0.55")}

\* the steps the event loop takes by itself: a task that can run does run
PumpStep ==
    \/ LoopStarts
    \/ LoopWaitDone
    \/ LoopSleepDone
    \/ ReconnectSleepDone("loop")
    \/ CloseDone("loop")
    \/ \E ok \in BOOLEAN :
            (ok \/ manager.connection_errors < MaxErrors) /\ ConnectDone("loop", ok)
    \/ ResubscribeSendDone("loop")
    \/ SubscribeSendDone("api")
    \/ \E s \in Sockets : CallbackReturns(s, FALSE)

NextPump ==
    \/ PumpStep
    \/ Elapse
    \/ StartBackgroundTask
    \/ CallSubscribe("api", PRICE_CHANGE, CLOB_MARKET, NoList, NoList, "notification")
    \/ Returns("api")
    \/ \E s \in Sockets, data \in PumpFrames : Receive(s, data)
    \/ \E s \in Sockets : PeerCloses(s)

\* the event loop runs every task that is ready, timers fire, time passes
FairPump == InitPump /\ [][NextPump]_vars /\ WF_vars(PumpStep) /\ WF_vars(Elapse)

\* the loop is inside reconnect()
Reconnecting ==
    tasks["loop"].pc \in {"reconnect_sleep", "close_clob", "close_realtime", "connect_clob",
                          "connect_realtime", "auth_recv", "resubscribe_send"}

\* C5: whenever a channel's socket is closed while the background loop is
\* running, the loop eventually invokes reconnect().
C5_ConnectionLossLeadsToReconnect ==
    \A s \in Sockets :
        (manager.should_run /\ Ws(manager, s) = "closed") ~> Reconnecting

(***************************************************************************)
(* stop_background_task against a running loop                             *)
(***************************************************************************)
\* the host awaits manager.stop_background_task()
CallStop(p) ==
    /\ tasks[p].pc = "idle"
    /\ WBecomes(StopBackgroundTask(
           [WCur EXCEPT !.tasks[p] =
               [IdleTask EXCEPT !.op = "stop",
                                !.before = IF "before" \in keep
                                           THEN <<tasks["loop"].pc>> ELSE <<>>]], p))
    /\ UNCHANGED rlVars

\* the loop has ended while stop_background_task waits for it
StopWaitDone(p) ==
    /\ tasks[p].pc = "stop_wait"
    /\ tasks["loop"].pc = "stopped"
    /\ WBecomes(Disconnect(WCur, p))
    /\ UNCHANGED rlVars

\* the wait of stop_background_task times out
StopTimeout(p) ==
    /\ tasks[p].pc = "stop_wait"
    /\ tasks[p].timer = 0
    /\ tasks["loop"].pc # "stopped"
    /\ WBecomes(TimedOut(WCur, p))
    /\ UNCHANGED rlVars

InitStop ==
    /\ InitRl({"before"})
    /\ \E credentials \in BOOLEAN : manager = NewManager(TRUE, TRUE, credentials)
    /\ tasks = [p \in TaskIds |-> IdleTask]
    /\ \E wait_takes_coroutines \in BOOLEAN : env = NewEnv(wait_takes_coroutines)

NextStop ==
    \/ manager.reconnect_count < MaxReconnects /\ tasks["api"].pc = "idle"
            /\ StartBackgroundTask
    \/ CallStop("api")
    \/ StopWaitDone("api")
    \/ StopTimeout("api")
    \/ \E p \in {"api", "loop"} : CloseDone(p)
    \/ Returns("api")
    \/ LoopStarts
    \/ LoopWaitDone
    \/ LoopSleepDone
    \/ ReconnectSleepDone("loop")
    \/ \E ok \in BOOLEAN :
            (ok \/ manager.connection_errors < MaxOutages) /\ ConnectDone("loop", ok)
    \/ \E type \in {"authenticated", "error"} : AuthReplied("loop", type)
    \/ AuthFailed("loop")
    \/ \E s \in Sockets : Receive(s, Frame(PRICE_CHANGE, NoStr, "A", NoStr, "T1", "0.55"))
    \/ \E s \in Sockets : PeerCloses(s)
    \/ Elapse

SpecStop == InitStop /\ [][NextStop]_vars

\* the task of the background loop has ended, or was never created
LoopEnded == tasks["loop"].pc \in {"idle", "stopped", "cancelled"}

\* C20: when stop_background_task() has returned, should_run is false, the
\* background task has ended (it has exited or it has been cancelled, so it
\* starts no further reconnect()), and clob_connected, realtime_connected and
\* authenticated are false, whatever the loop was doing at the call.
C20_StopStopsTheLoop ==
    (tasks["api"].op = "stop" /\ tasks["api"].pc = "done" /\ tasks["api"].exc = "none") =>
        /\ ~manager.should_run
        /\ LoopEnded
        /\ \A s \in Sockets : tasks[s].pc = "idle"
        /\ ~manager.clob_connected /\ ~manager.realtime_connected
        /\ ~manager.authenticated
        /\ manager.clob_ws # "open" /\ manager.realtime_ws # "open"

\* stop_background_task() was called while the loop slept in a reconnect
\* backoff longer than 5 s, has cancelled it and has returned
C20_Witness ==
    /\ tasks["api"].op = "stop" /\ tasks["api"].pc = "done" /\ tasks["api"].exc = "none"
    /\ tasks["api"].before = <<"reconnect_sleep">>
    /\ tasks["loop"].pc = "cancelled"
    /\ manager.reconnect_attempts = 3

(***************************************************************************)
(* _find_matching_subscriptions on every registry and every event key      *)
(***************************************************************************)
MatchFilters == {NoList, List({}), List({"A"})}
MatchTokenFilters == {NoList, List({}), List({"T1"})}
MatchShapes == {PRICE_CHANGE, TRADE} \X MatchFilters \X MatchTokenFilters

\* the registries of n subscriptions, ids 1..n in the order they were subscribed
Registries(n) ==
    {[i \in 1..n |-> Subscription(i, f[i][1], CLOB_MARKET, f[i][2], f[i][3], "notification")] :
        f \in [1..n -> MatchShapes]}

\* the secondary indexes subscribe has built for a registry
IndexOf(subs, keys, field) ==
    [x \in keys |->
        {subs[i].id : i \in {j \in 1..Len(subs) :
            IF field = "market" THEN ListTruthy(subs[j].market_ids) /\ x \in subs[j].market_ids.ids
            ELSE ListTruthy(subs[j].token_ids) /\ x \in subs[j].token_ids.ids}}]

InitMatch ==
    /\ InitRl({})
    /\ \E n \in 0..MaxSubs : \E subs \in Registries(n) :
          /\ manager = [ConnectedManager(TRUE, TRUE) EXCEPT
                          !.subscriptions = subs,
                          !.market_subscriptions = IndexOf(subs, Markets, "market"),
                          !.token_subscriptions = IndexOf(subs, Tokens, "token")]
          /\ env = [NewEnv(TRUE) EXCEPT !.next_id = n + 1]
    /\ \E event_type \in {PRICE_CHANGE, TRADE}, market_id \in {NoStr, "", "A", "B"},
          token_id \in {NoStr, "", "T1", "T2"} :
          tasks = [p \in TaskIds |->
                     IF p = "api"
                     THEN [IdleTask EXCEPT !.pc = "call", !.op = "find_matching",
                                           !.args = <<event_type, market_id, token_id>>]
                     ELSE IdleTask]

\* self._find_matching_subscriptions(event_type, market_id, token_id) is evaluated
FindMatching(p) ==
    /\ tasks[p].pc = "call" /\ tasks[p].op = "find_matching"
    /\ tasks' = [tasks EXCEPT ![p].pc = "done",
                              ![p].matching =
                                  FindMatchingSubscriptions(manager.subscriptions,
                                      tasks[p].args[1], tasks[p].args[2], tasks[p].args[3])]
    /\ UNCHANGED <<manager, env>>
    /\ UNCHANGED rlVars

NextMatch == FindMatching("api")

SpecMatch == InitMatch /\ [][NextMatch]_vars

\* the result of the call is exactly the registered subscriptions satisfying
\* pred, in registry order, each once
Returns_Exactly(pred(_)) ==
    LET call == tasks["api"]
    IN  (call.op = "find_matching" /\ call.pc = "done") =>
            call.matching = SelectSeq(manager.subscriptions, pred)

\* the rule as stated: type, and each filter absent or containing the key
StatedRule(sub) ==
    /\ sub.type = tasks["api"].args[1]
    /\ ~ListTruthy(sub.market_ids) \/ tasks["api"].args[2] \in sub.market_ids.ids
    /\ ~ListTruthy(sub.token_ids) \/ tasks["api"].args[3] \in sub.token_ids.ids

\* the rule the code follows: a filter also passes an event that carries no key
AmendedRule(sub) ==
    /\ sub.type = tasks["api"].args[1]
    /\ \/ ~ListTruthy(sub.market_ids)
       \/ ~StrTruthy(tasks["api"].args[2])
       \/ tasks["api"].args[2] \in sub.market_ids.ids
    /\ \/ ~ListTruthy(sub.token_ids)
       \/ ~StrTruthy(tasks["api"].args[3])
       \/ tasks["api"].args[3] \in sub.token_ids.ids

\* C8 as stated: _find_matching_subscriptions returns exactly the subscriptions
\* whose type equals event_type and whose market filter is absent or contains
\* market_id and whose token filter is absent or contains token_id, for every
\* input, market_id = None and token_id = None included.
C8_MatchingAsStated == Returns_Exactly(StatedRule)

\* C8 amended: it returns exactly the subscriptions whose type equals event_type
\* and whose market filter is absent (None or empty), or the event carries no
\* market id (None or ""), or market_id is in the filter; and the same for the
\* token filter and token_id.
C8_MatchingAmended == Returns_Exactly(AmendedRule)

\* an orderbook-like event, no market id, has been matched to a subscription
\* that filters on market A
C8_Witness ==
    /\ tasks["api"].op = "find_matching" /\ tasks["api"].pc = "done"
    /\ tasks["api"].args[2] = NoStr
    /\ \E i \in 1..Len(tasks["api"].matching) :
          tasks["api"].matching[i].market_ids = List({"A"})

(***************************************************************************)
(* Delivery: which callback a typed handler awaits for a subscription      *)
(***************************************************************************)
\* one frame per typed handler, each with fields that parse
DeliveryFrames ==
    {Frame(PRICE_CHANGE, NoStr, "A", NoStr, "T1", "0.55"),
     Frame(AGG_ORDERBOOK, NoStr, NoStr, NoStr, "T1", NoStr),
     Frame(ORDER, NoStr, NoStr, "A", NoStr, "0.55"),
     Frame(TRADE, NoStr, NoStr, "A", NoStr, "0.55"),
     Frame(MARKET_RESOLVED, NoStr, NoStr, "A", NoStr, NoStr)}

\* both callbacks are supplied
InitDelivery ==
    /\ InitRl({"log", "delivered"})
    /\ manager = ConnectedManager(TRUE, TRUE)
    /\ tasks = [p \in TaskIds |-> IdleTask]
    /\ env = NewEnv(TRUE)

NextDelivery ==
    \/ \E event_type \in TypedEvents, callback_type \in {"notification", "log"} :
            CallSubscribe("api", event_type, CLOB_MARKET, NoList, NoList, callback_type)
    \/ SubscribeSendDone("api")
    \/ Returns("api")
    \/ \E data \in DeliveryFrames : CallHandleMessage("clob", data)
    \/ CallbackReturns("clob", FALSE)

SpecDelivery == InitDelivery /\ [][NextDelivery]_vars

\* C11: with both callbacks supplied, once a frame of a typed handler has been
\* handled, every subscription that was registered for its type has had exactly
\* one callback invoked for that frame, the one its callback_type names.
C11_ExactlyOneCallback ==
    \A no \in 1..Len(env.log) :
        (env.log[no].ended /\ Discriminator(env.log[no].data) \in TypedEvents) =>
            \A k \in 1..Len(manager.subscriptions) :
                LET sub == manager.subscriptions[k]
                IN  (sub.id < env.log[no].next_id
                     /\ sub.type = Discriminator(env.log[no].data)) =>
                        /\ Cardinality(DeliveriesOf(no, sub.id)) = 1
                        /\ \A i \in DeliveriesOf(no, sub.id) :
                                env.delivered[i].callback = sub.callback_type

(***************************************************************************)
(* RateLimiter.acquire under an active backoff                             *)
(***************************************************************************)
InitWait == InitRl({"calls", "until"}) /\ InitWs

NextWait ==
    \/ \E p \in Callers, c \in Categories : CallAcquire(p, c, 1, TRUE)
    \/ \E p \in Callers, c \in Categories : n429 < Max429 /\ CallHandle429(p, c, None)
    \/ \E p \in Callers : BackoffLockGranted(p)
    \/ \E p \in Callers : BackoffSleepDone(p)
    \/ \E p \in Callers : BucketLockGranted(p)
    \/ \E p \in Callers : BucketSleepDone(p)
    \/ \E p \in Callers : Return(p)
    \/ Tick

SpecWait == InitWait /\ [][NextWait]_vars

\* C12: an acquire (retry_on_429 true) that started while its category's
\* backoff-until was in the future has not deducted (it deducts as it returns)
\* before that time, and the wait it returns is at least the backoff that
\* remained at its call.
C12_BackoffIsWaitedOut ==
    \A p \in Callers :
        (callers[p].op = "acquire" /\ callers[p].until > 0 /\ callers[p].pc = "done") =>
            /\ now >= callers[p].until
            /\ callers[p].ret >= callers[p].until - callers[p].call_time

(***************************************************************************)
(* handle_429_error and reset_backoff, with an acquire holding the lock    *)
(***************************************************************************)
\* reset_backoff(category): `self._429_backoff[category] = 0.0`, or clear()
\* when no category is given
ResetBackoff(category) ==
    /\ backoff_429' = IF category = NoStr THEN <<>> ELSE Put(backoff_429, category, 0)
    /\ UNCHANGED <<now, buckets, backoff_lock, callers, granted, keep, durations, n429, tools>>
    /\ UNCHANGED wsVars

InitHandle429 == InitRl({"h429"}) /\ InitWs

\* the Retry-After values a server sends: none, 0 and 2 seconds
ServerRetryAfters == {None, 0, 2}

\* on one category, caller 1 reports 429s and caller 2 acquires (and sleeps
\* holding _backoff_lock)
NextHandle429 ==
    \/ \E ra \in ServerRetryAfters :
            n429 < MaxChain /\ CallHandle429(1, "market_data", ra)
    \/ CallAcquire(2, "market_data", 1, TRUE)
    \/ BackoffLockGranted(1)
    \/ BackoffSleepDone(2)
    \/ BucketSleepDone(2)
    \/ \E p \in {1, 2} : Return(p)
    \/ \E category \in {"market_data", NoStr} : ResetBackoff(category)
    \/ Tick

SpecHandle429 == InitHandle429 /\ [][NextHandle429]_vars

\* what the handle_429_error call that caller p has completed was given, read and set
Completed429(p) == callers[p].h429[1]
Has429(p) == callers[p].op = "handle_429_error" /\ callers[p].pc = "done"

\* C13: without retry_after, handle_429_error sets a duration of 1 s when the
\* category has no active backoff and of min(2 * remaining, 60) s when one is
\* active with `remaining` seconds left; backoff-until is now + that duration.
C13_BackoffDuration ==
    \A p \in Callers :
        (Has429(p) /\ Completed429(p).retry_after = None) =>
            LET h == Completed429(p)
                remaining == h.current_backoff - h.now
            IN  /\ remaining <= 0 => h.backoff_until = h.now + 1
                /\ remaining > 0 =>
                      h.backoff_until = h.now + (IF 2 * remaining < 60 THEN 2 * remaining ELSE 60)

\* the ceiling has been applied: 64 s would have been the double of the remaining
\* 32 s; and a call after a reset has started again from 1 s
C13_Witness ==
    \E p \in Callers :
        /\ Has429(p) /\ Completed429(p).retry_after = None
        /\ Completed429(p).current_backoff - Completed429(p).now = 32
        /\ Completed429(p).backoff_until = Completed429(p).now + 60

\* C14: with retry_after = r >= 0 given, handle_429_error sets backoff-until to
\* now + r, r = 0 included, whatever backoff is active.
C14_RetryAfterIsUsed ==
    \A p \in Callers :
        (Has429(p) /\ Completed429(p).retry_after # None) =>
            Completed429(p).backoff_until = Completed429(p).now + Completed429(p).retry_after

(***************************************************************************)
(* RateLimiter.acquire for a category without a bucket                     *)
(***************************************************************************)
InitFailOpen == InitRl({}) /\ InitWs

NextFailOpen ==
    \/ \E p \in Callers, c \in {"market_data", UnknownCategory}, retry \in BOOLEAN :
            CallAcquire(p, c, 1, retry)
    \/ \E p \in Callers : n429 < Max429 /\ CallHandle429(p, "market_data", None)
    \/ \E p \in Callers : BackoffLockGranted(p)
    \/ \E p \in Callers : BackoffSleepDone(p)
    \/ \E p \in Callers : BucketLockGranted(p)
    \/ \E p \in Callers : BucketSleepDone(p)
    \/ \E p \in Callers : Return(p)
    \/ Tick

SpecFailOpen == InitFailOpen /\ [][NextFailOpen]_vars

\* C23: an acquire for a category that has no bucket returns 0.0 in the step
\* of its call (it does not wait and does not raise) and leaves every bucket,
\* every backoff entry and the backoff lock as they were.
C23_UnknownCategoryFailsOpen ==
    [][\A p \in Callers :
          (callers[p].pc = "idle" /\ callers'[p].op = "acquire"
              /\ callers'[p].cat \notin DOMAIN buckets) =>
                /\ callers'[p].pc = "done" /\ callers'[p].ret = 0
                /\ buckets' = buckets
                /\ backoff_429' = backoff_429
                /\ backoff_lock' = backoff_lock]_vars

\* an acquire for the unknown category has returned while another caller
\* sleeps in a 429 backoff holding _backoff_lock
C23_Witness ==
    \E p \in Callers, q \in Callers :
        /\ callers[p].op = "acquire" /\ callers[p].cat = UnknownCategory
        /\ callers[p].pc = "done" /\ callers[p].ret = 0
        /\ callers[q].pc = "backoff_sleep" /\ backoff_lock.holder = q

\* C24: while a caller sleeps inside TokenBucket.acquire waiting for tokens, it
\* holds the bucket's lock, no other acquire on that bucket returns, and the
\* bucket's tokens are deducted by nobody but the sleeper when it is granted.
C24_LockHeldAcrossSleep ==
    [][\A p \in Callers :
          callers[p].pc = "bucket_sleep" =>
            LET c == callers[p].cat
            IN  /\ buckets[c].lock.holder = p
                /\ \A q \in Callers \ {p} :
                      (callers[q].cat = c /\ callers'[q].pc = "done") => callers[q].pc = "done"
                /\ buckets'[c].tokens < buckets[c].tokens => callers'[p].pc = "done"]_vars

\* a caller sleeps for 2 tokens while the bucket holds the 1 token that the
\* caller queued behind it asks for
C24_Witness ==
    \E p \in Callers, q \in Callers :
        /\ callers[p].pc = "bucket_sleep" /\ callers[q].pc = "bucket_lock"
        /\ callers[q].cat = callers[p].cat
        /\ buckets[callers[p].cat].tokens >= callers[q].n

(***************************************************************************)
(* One TokenBucket with time that goes on: every sleep ends when it is due *)
(***************************************************************************)
\* the clock's last tick: late enough for every acquire called by MaxTime to end
LastTick == MaxTime + NumCallers * MaxTokens + 1

\* a coroutine of the limiter is ready to run: its sleep is over or the lock
\* it waits for has been handed to it
Ready(p) ==
    \/ callers[p].pc \in {"bucket_sleep", "backoff_sleep"} /\ now >= callers[p].wake
    \/ callers[p].pc = "bucket_lock" /\ LockWoken(buckets[callers[p].cat].lock, p)
    \/ callers[p].pc \in {"backoff_lock", "h429_lock"} /\ LockWoken(backoff_lock, p)

\* the event loop has run every ready coroutine and time passes to the next
\* tick; past MaxTime the clock is followed only while a caller waits
TimePasses ==
    /\ now < MaxTime
       \/ (now < LastTick /\ \E p \in Callers : callers[p].pc \in {"bucket_lock", "bucket_sleep"})
    /\ \A p \in Callers : ~Ready(p)
    /\ now' = now + 1
    /\ UNCHANGED <<buckets, backoff_429, backoff_lock, callers, granted, keep,
                   durations, n429, tools>>
    /\ UNCHANGED wsVars

\* one fresh limiter at time 0; k names the histories that are kept
InitPatience(k) ==
    /\ keep = k
    /\ now = 0
    /\ buckets = [c \in Categories |-> NewBucket(c, 0)]
    /\ backoff_429 = <<>>
    /\ backoff_lock = FreeLock
    /\ callers = [p \in Callers |-> IdleCaller]
    /\ granted = [t \in 0..LastTick |-> 0]
    /\ durations = [c \in Categories |-> <<>>]
    /\ n429 = 0
    /\ tools = [p \in Callers |-> IdleTool]
    /\ InitWs

\* the callers call up to MaxTime
NextPatience ==
    \/ \E p \in Callers, n \in 1..MaxTokens :
            now <= MaxTime /\ CallBucketAcquire(p, "market_data", n)
    \/ \E p \in Callers : BucketLockGranted(p)
    \/ \E p \in Callers : BucketSleepDone(p)
    \/ \E p \in Callers : Return(p)
    \/ TimePasses

\* the steps the event loop takes by itself; at most one of them is enabled at
\* a time, the lock being held by one caller
PatienceStep ==
    \/ \E p \in Callers : BucketLockGranted(p)
    \/ \E p \in Callers : BucketSleepDone(p)
    \/ TimePasses

\* the event loop runs what is ready, and time advances
FairPatience == InitPatience({}) /\ [][NextPatience]_vars /\ WF_vars(PatienceStep)

\* caller p is inside TokenBucket.acquire
InAcquire(p) == callers[p].pc \in {"bucket_lock", "bucket_sleep"}

\* C25: with time advancing, every TokenBucket.acquire(n), 1 <= n <= max_tokens,
\* of any of the concurrent callers eventually returns, and the step in which
\* it returns deducts its n tokens from the refilled bucket.
C25_AcquireIsServed ==
    /\ \A p \in Callers : InAcquire(p) ~> (callers[p].pc = "done")
    /\ [][\A p \in Callers :
            (callers[p].pc # "done" /\ callers'[p].pc = "done") =>
                buckets'[callers'[p].cat].tokens =
                    Refill(callers'[p].cat, buckets[callers'[p].cat], now).tokens - callers'[p].n]_vars

\* two acquires of the whole capacity have both been served after waiting
C25_Witness ==
    \E p \in Callers, q \in Callers :
        /\ p # q
        /\ callers[p].pc = "done" /\ callers[p].n = MaxTokens /\ callers[p].ret > 0
        /\ callers[q].pc = "done" /\ callers[q].n = MaxTokens /\ callers[q].ret > 0

(***************************************************************************)
(* TokenBucket.acquire asked for more than the bucket can hold             *)
(***************************************************************************)
NextOversized ==
    \/ \E p \in Callers, n \in {1, MaxTokens + 1} :
            now <= MaxTime /\ CallBucketAcquire(p, "market_data", n)
    \/ \E p \in Callers : BucketLockGranted(p)
    \/ \E p \in Callers : BucketSleepDone(p)
    \/ \E p \in Callers : Return(p)
    \/ TimePasses

SpecOversized == InitPatience({}) /\ [][NextOversized]_vars

\* caller p has asked the bucket for more tokens than max_tokens
Oversized(p) ==
    callers[p].op = "bucket_acquire" /\ callers[p].n > max_tokens(callers[p].cat)

\* C26: a TokenBucket.acquire(n) with n > max_tokens never returns (and has no
\* way to raise): it is queued for the lock or, holding it, asleep with
\* tokens < n, in every state it reaches.
C26_OversizedNeverReturns ==
    \A p \in Callers :
        Oversized(p) =>
            /\ callers[p].pc \in {"bucket_lock", "bucket_sleep"}
            /\ callers[p].pc = "bucket_sleep" =>
                  /\ buckets[callers[p].cat].lock.holder = p
                  /\ buckets[callers[p].cat].tokens < callers[p].n

\* the oversized acquire has slept more than once and sleeps again, the
\* bucket full
C26_Witness ==
    \E p \in Callers :
        /\ Oversized(p) /\ callers[p].pc = "bucket_sleep"
        /\ callers[p].wait_time >= 2
        /\ buckets[callers[p].cat].tokens = max_tokens(callers[p].cat)

\* the same callers, their call times kept
SpecPatience == InitPatience({"calls"}) /\ [][NextPatience]_vars

\* C27: the value TokenBucket.acquire returns is the time that passed between
\* the caller's call and its return, for every interleaving of the callers
\* (so it is 0 only for a caller admitted at once).
C27_ReturnsTimeWaited ==
    [][\A p \in Callers :
          (callers[p].pc # "done" /\ callers'[p].pc = "done"
              /\ callers'[p].op = "bucket_acquire") =>
                callers'[p].ret = now - callers'[p].call_time]_vars

(***************************************************************************)
(* A fresh bucket emptied by acquire(1) calls issued at one instant        *)
(***************************************************************************)
InitScenario ==
    /\ keep = {"grants"}
    /\ now = 0
    /\ buckets = [c \in {ScenarioCategory} |-> NewBucket(c, 0)]
    /\ backoff_429 = <<>>
    /\ backoff_lock = FreeLock
    /\ callers = [p \in Callers |-> IdleCaller]
    /\ granted = [t \in 0..LastTick |-> 0]
    /\ durations = [c \in Categories |-> <<>>]
    /\ n429 = 0
    /\ tools = [p \in Callers |-> IdleTool]
    /\ InitWs

\* the acquire calls issued so far, all at time 0: those granted at once and
\* those still inside acquire
Issued == granted[0] + Cardinality({p \in Callers : InAcquire(p)})

NextScenario ==
    \/ \E p \in Callers :
            now = 0 /\ Issued < ScenarioTokens + 2 /\ CallBucketAcquire(p, ScenarioCategory, 1)
    \/ \E p \in Callers : BucketLockGranted(p)
    \/ \E p \in Callers : BucketSleepDone(p)
    \/ \E p \in Callers : Return(p)
    \/ TimePasses

SpecScenario == InitScenario /\ [][NextScenario]_vars

\* C28: on a fresh bucket of max_tokens 5 refilled by 1 token per second, each
\* of the first five acquire(1) calls issued at one instant returns 0 at once,
\* the fifth leaving tokens = 0; the sixth call issued at that instant sleeps
\* and returns a wait of 1 s, leaving 0 <= tokens <= 5.
C28_FiveThenWait ==
    [][\A p \in Callers :
          LET b == buckets[ScenarioCategory]
              b1 == buckets'[ScenarioCategory]
          IN  /\ (callers[p].pc = "idle" /\ callers'[p].pc # "idle" /\ Issued < ScenarioTokens) =>
                    /\ callers'[p].pc = "done" /\ callers'[p].ret = 0
                    /\ b1.tokens = ScenarioTokens - (Issued + 1)
              /\ (callers[p].pc = "idle" /\ callers'[p].pc # "idle" /\ Issued = ScenarioTokens) =>
                    /\ b.tokens = 0
                    /\ callers'[p].pc = "bucket_sleep"
                    /\ callers'[p].wake = now + 1
              /\ (callers[p].pc = "bucket_sleep" /\ callers'[p].pc = "done") =>
                    /\ callers'[p].ret = 1
                    /\ 0 <= b1.tokens /\ b1.tokens <= ScenarioTokens]_vars

\* five calls were granted at time 0 and the sixth has returned a wait of 1 s
C28_Witness ==
    /\ granted[0] = ScenarioTokens /\ granted[1] = 1
    /\ \E p \in Callers : callers[p].pc = "done" /\ callers[p].ret = 1
    /\ buckets[ScenarioCategory].tokens = 0

(***************************************************************************)
(* get_status between the calls of acquire and handle_429_error            *)
(***************************************************************************)
\* a caller calls rate_limiter.get_status()
CallGetStatus(p) ==
    /\ callers[p].pc = "idle"
    /\ Becomes(GetStatus(Started(p, "get_status", "market_data", 0, FALSE, None), p, now))
    /\ UNCHANGED <<now, n429, keep, tools>>
    /\ UNCHANGED wsVars

InitStatus == InitRl({}) /\ InitWs

\* callers 1 and 2 acquire on one category, caller 1 reports 429s as well and
\* caller 2 asks for the status
NextStatus ==
    \/ \E p \in {1, 2} : CallAcquire(p, "market_data", 1, TRUE)
    \/ \E ra \in RetryAfters : n429 < Max429 /\ CallHandle429(1, "market_data", ra)
    \/ CallGetStatus(2)
    \/ \E p \in {1, 2} : BackoffLockGranted(p)
    \/ \E p \in {1, 2} : BackoffSleepDone(p)
    \/ \E p \in {1, 2} : BucketLockGranted(p)
    \/ \E p \in {1, 2} : BucketSleepDone(p)
    \/ \E p \in {1, 2} : Return(p)
    \/ ResetBackoff("market_data")
    \/ Tick

SpecStatus == InitStatus /\ [][NextStatus]_vars

\* C29: a call of get_status leaves the backoff entries, the locks and the
\* other callers as they were; of each bucket it changes only tokens and
\* last_refill, by the refill for the time elapsed (tokens capped at
\* max_tokens, none deducted); and the is_throttled it reports for a category
\* is true exactly when the category's backoff-until is later than now.
C29_StatusOnlyRefills ==
    [][\A p \in Callers :
          (callers[p].pc = "idle" /\ callers'[p].op = "get_status") =>
            /\ callers'[p].pc = "done"
            /\ backoff_429' = backoff_429
            /\ backoff_lock' = backoff_lock
            /\ \A q \in Callers \ {p} : callers'[q] = callers[q]
            /\ DOMAIN buckets' = DOMAIN buckets
            /\ \A c \in DOMAIN buckets :
                  LET filled == buckets[c].tokens + (now - buckets[c].last_refill) * refill_rate(c)
                  IN  /\ buckets'[c].lock = buckets[c].lock
                      /\ buckets'[c].last_refill = now
                      /\ buckets'[c].tokens =
                            (IF filled > max_tokens(c) THEN max_tokens(c) ELSE filled)
                      /\ buckets'[c].tokens >= buckets[c].tokens
                      /\ callers'[p].ret[c].is_throttled <=> (Get(backoff_429, c, 0) > now)]_vars

\* get_status has reported one category throttled and the other not, while an
\* acquire sleeps in the throttled category's backoff
C29_Witness ==
    \E p \in Callers, q \in Callers :
        /\ callers[p].op = "get_status" /\ callers[p].pc = "done"
        /\ callers[p].ret["market_data"].is_throttled
        /\ ~callers[p].ret["data_api"].is_throttled
        /\ callers[q].pc = "backoff_sleep"

(***************************************************************************)
(* Malformed frames arriving at the running loop                           *)
(***************************************************************************)
InitDrop ==
    /\ InitRl({"log", "delivered"})
    /\ manager = ConnectedManager(TRUE, TRUE)
    /\ tasks = [p \in TaskIds |-> IdleTask]
    /\ env = NewEnv(TRUE)

\* a frame that is delivered, one without "type" and "event", one with both empty
DropFrames ==
    {Frame(PRICE_CHANGE, NoStr, "A", NoStr, "T1", "0.55"),
     Frame(NoStr, NoStr, "A", NoStr, "T1", "0.55"),
     Frame("", "", "A", NoStr, "T1", "0.55")}

NextDrop ==
    \/ StartBackgroundTask
    \/ LoopStarts
    \/ LoopWaitDone
    \/ CallSubscribe("api", PRICE_CHANGE, CLOB_MARKET, NoList, NoList, "notification")
    \/ SubscribeSendDone("api")
    \/ Returns("api")
    \/ \E s \in Sockets, data \in DropFrames : Receive(s, data)
    \/ \E s \in Sockets : ReceiveGarbage(s)
    \/ \E s \in Sockets, raises \in BOOLEAN : CallbackReturns(s, raises)
    \/ Elapse

SpecDrop == InitDrop /\ [][NextDrop]_vars

\* the step receives a message that json.loads rejects
DropsGarbage == env'.frames = env.frames + 1 /\ Len(env'.log) = Len(env.log)
\* the step gives handle_message a frame without a discriminator
DropsUntyped ==
    /\ Len(env'.log) = Len(env.log) + 1
    /\ ~StrTruthy(Discriminator(env'.log[Len(env'.log)].data))

\* C22: a frame that is not JSON, or that has neither "type" nor "event", is
\* dropped: nothing is delivered, total_events_received and events_by_type
\* stay as they were, the receive task ends without an exception and the
\* background loop goes on; and no handling of any frame ends with an
\* exception that has left handle_message.
C22_MalformedFramesAreDropped ==
    /\ [][(DropsGarbage \/ DropsUntyped) =>
            /\ env'.delivered = env.delivered
            /\ manager'.total_events_received = manager.total_events_received
            /\ manager'.events_by_type = manager.events_by_type
            /\ manager'.subscriptions = manager.subscriptions
            /\ tasks'["loop"] = tasks["loop"]
            /\ \E s \in Sockets :
                  /\ tasks[s].pc = "recv" /\ tasks'[s].pc = "done" /\ tasks'[s].exc = "none"
                  /\ \A t \in Sockets \ {s} : tasks'[t] = tasks[t]]_vars
    /\ [](\A s \in Sockets : tasks[s].exc = "none" /\ tasks[s].pc # "failed")
    /\ [](tasks["loop"].pc \in {"idle", "start", "wait"})

\* with a subscription registered that takes every price change, a message
\* that is not JSON and a frame without discriminator have been dropped, and
\* the loop waits for the next frame
C22_Witness ==
    /\ env.frames = 2 /\ Len(env.log) = 1
    /\ ~StrTruthy(Discriminator(env.log[1].data)) /\ env.log[1].ended
    /\ Len(manager.subscriptions) = 1
    /\ env.delivered = <<>> /\ manager.total_events_received = 0
    /\ tasks["loop"].pc = "wait" /\ \A s \in Sockets : tasks[s].pc = "recv"

\* C30: the frames of a channel are handled one after the other in the order
\* they were received: when the handling of a frame starts, the handling of
\* every frame received before it on the same channel has ended (it has
\* returned, or its receive task has been cancelled).
C30_FramesHandledInOrder ==
    \A i \in 1..Len(env.log) : \A j \in (i + 1)..Len(env.log) :
        env.log[i].task = env.log[j].task =>
            env.log[i].ended \/ env.log[i].cancelled

\* two frames of one channel: the handling of the first was cut off by the
\* loop's timeout while it awaited a callback, the second is being delivered
C30_Witness ==
    /\ Len(env.log) = 2
    /\ env.log[1].task = env.log[2].task
    /\ env.log[1].cancelled /\ ~env.log[1].ended
    /\ tasks[env.log[2].task].pc = "callback" /\ tasks[env.log[2].task].no = 2

(***************************************************************************)
(* unsubscribe while the receive tasks of both channels deliver            *)
(***************************************************************************)
NextCancel ==
    \/ StartBackgroundTask
    \/ LoopStarts
    \/ LoopWaitDone
    \/ CallSubscribe("api", PRICE_CHANGE, CLOB_MARKET, NoList, NoList, "notification")
    \/ SubscribeSendDone("api")
    \/ \E id \in 1..MaxSubs : CallUnsubscribe("api", id)
    \/ UnsubscribeSendDone("api")
    \/ Returns("api")
    \/ \E s \in Sockets : Receive(s, Frame(PRICE_CHANGE, NoStr, "A", NoStr, "T1", "0.55"))
    \/ \E s \in Sockets : CallbackReturns(s, FALSE)
    \/ Elapse

SpecCancel == InitDrop /\ [][NextCancel]_vars

\* the deliveries to subscription id made after unsubscribe had removed it
LateDeliveries(id) ==
    {i \in 1..Len(env.delivered) : env.delivered[i].sub.id = id /\ env.delivered[i].late}

\* C21: a frame whose matching is computed after unsubscribe(id) has removed
\* the registry entry is not delivered to id, and at most one delivery to id
\* is made after the removal, however the receive tasks of the two channels
\* interleave with the unsubscribe call.
C21_AtMostOneLateDelivery ==
    /\ \A i \in 1..Len(env.delivered) :
            env.delivered[i].sub.id \notin env.log[env.delivered[i].no].removed
    /\ \A id \in env.removed : Cardinality(LateDeliveries(id)) <= 1

\* the first half of C21 alone: no frame matched after the removal is delivered
C21_NoDeliveryOfLaterFrames ==
    \A i \in 1..Len(env.delivered) :
        env.delivered[i].sub.id \notin env.log[env.delivered[i].no].removed

(***************************************************************************)
(* Trading tools and the requests they send                                *)
(***************************************************************************)
\* create_limit_order as far as the tool runs once `await
\* self.rate_limiter.acquire(TRADING_BURST)` has returned: the parameters are
\* validated, then get_market is awaited
AfterAcquire(tl) ==
    IF tl.valid
    THEN Request([tl EXCEPT !.acquires = @ + 1], "get_market")
    ELSE ToolFails([tl EXCEPT !.acquires = @ + 1])

\* TradingTools.create_limit_order up to its first suspension, run by tool
\* coroutine tl of caller p: the acquire either returns at once or waits
CreateLimitOrder(p, tl) ==
    LET s == LimiterAcquire(Started(p, "acquire", TRADING_BURST, 1, TRUE, None), p, now)
        at_once == s.callers[p].pc = "done"
    IN  /\ Becomes(IF at_once THEN [s EXCEPT !.callers[p] = IdleCaller] ELSE s)
        /\ tools' = [tools EXCEPT ![p] =
                        IF at_once
                        THEN AfterAcquire([tl EXCEPT !.inner = TRUE])
                        ELSE [tl EXCEPT !.inner = TRUE, !.pc = "acquire"]]

\* a caller awaits create_limit_order(...); valid tells whether the parameters
\* pass the tool's own validation
CallCreateLimitOrder(p, valid) ==
    /\ tools[p].pc = "idle"
    /\ callers[p].pc = "idle"
    /\ CreateLimitOrder(p, [IdleTool EXCEPT !.op = "create_limit_order", !.valid = valid])
    /\ UNCHANGED <<now, n429, keep>>
    /\ UNCHANGED wsVars

\* a caller awaits create_market_order(...): the tool awaits get_market first
CallCreateMarketOrder(p) ==
    /\ tools[p].pc = "idle"
    /\ callers[p].pc = "idle"
    /\ tools' = [tools EXCEPT ![p] =
                    Request([IdleTool EXCEPT !.op = "create_market_order"], "get_market")]
    /\ UNCHANGED <<now, buckets, backoff_429, backoff_lock, callers, granted, keep,
                   durations, n429>>
    /\ UNCHANGED wsVars

\* the acquire a tool was waiting in has returned
AcquireReturns(p) ==
    /\ tools[p].pc = "acquire"
    /\ callers[p].pc = "done"
    /\ callers' = [callers EXCEPT ![p] = IdleCaller]
    /\ tools' = [tools EXCEPT ![p] = AfterAcquire(@)]
    /\ UNCHANGED <<now, buckets, backoff_429, backoff_lock, granted, keep, durations, n429>>
    /\ UNCHANGED wsVars

\* The client call a tool awaits ends. ok is false when the call raises or what
\* it returned makes the tool raise ValueError (no tokens, an empty book, a
\* failed safety check); otherwise the tool goes on to its next client call.
ResponseArrives(p, ok) ==
    /\ tools[p].pc \in ClientCalls
    /\ ~(ok /\ tools[p].pc = "get_orderbook" /\ ~tools[p].inner)
    /\ tools' = [tools EXCEPT ![p] =
            IF ~ok THEN ToolFails(@)
            ELSE IF @.pc = "get_market" THEN Request(@, "get_orderbook")
            ELSE IF @.pc = "get_orderbook" THEN Request(@, "get_positions")
            ELSE IF @.pc = "get_positions" THEN Request(@, "post_order")
            ELSE [@ EXCEPT !.pc = "done", !.ret = "success"]]
    /\ UNCHANGED <<now, buckets, backoff_429, backoff_lock, callers, granted, keep,
                   durations, n429>>
    /\ UNCHANGED wsVars

\* create_market_order has read the best price from the book and awaits
\* self.create_limit_order(..., order_type='FOK')
MarketOrderPlaces(p) ==
    /\ tools[p].pc = "get_orderbook"
    /\ ~tools[p].inner
    /\ CreateLimitOrder(p, [tools[p] EXCEPT !.valid = TRUE])
    /\ UNCHANGED <<now, n429, keep>>
    /\ UNCHANGED wsVars

\* the tool's result is taken by its caller
ToolReturns(p) ==
    /\ tools[p].pc = "done"
    /\ tools' = [tools EXCEPT ![p] = IdleTool]
    /\ UNCHANGED <<now, buckets, backoff_429, backoff_lock, callers, granted, keep,
                   durations, n429>>
    /\ UNCHANGED wsVars

\* RateLimiter.__init__ with the bucket the trading tools draw on
InitTools ==
    /\ keep = {}
    /\ now = 0
    /\ buckets = [c \in {TRADING_BURST} |-> NewBucket(c, 0)]
    /\ backoff_429 = <<>>
    /\ backoff_lock = FreeLock
    /\ callers = [p \in Callers |-> IdleCaller]
    /\ granted = [t \in 0..MaxTime |-> 0]
    /\ durations = [c \in Categories |-> <<>>]
    /\ n429 = 0
    /\ tools = [p \in Callers |-> IdleTool]
    /\ InitWs

NextTools ==
    \/ \E p \in Callers, valid \in BOOLEAN : CallCreateLimitOrder(p, valid)
    \/ \E p \in Callers : CallCreateMarketOrder(p)
    \/ \E p \in Callers : AcquireReturns(p)
    \/ \E p \in Callers, ok \in BOOLEAN : ResponseArrives(p, ok)
    \/ \E p \in Callers : MarketOrderPlaces(p)
    \/ \E p \in Callers : ToolReturns(p)
    \/ \E p \in Callers : BucketLockGranted(p)
    \/ \E p \in Callers : BucketSleepDone(p)
    \/ Tick

SpecTools == InitTools /\ [][NextTools]_vars

\* C31: every request a trading tool sends to the venue (get_market,
\* get_orderbook, get_positions, post_order) is preceded by its own completed
\* RateLimiter.acquire: the i-th request of a tool call is sent after the call
\* has completed at least i acquires.
C31_EveryRequestHasItsAcquire ==
    \A p \in Callers : \A i \in 1..Len(tools[p].requests) :
        tools[p].requests[i].acquires >= i

(***************************************************************************)
(* reconnect() of one coroutine, subscribe and unsubscribe of another      *)
(***************************************************************************)
InitResubscribe ==
    /\ InitRl({"resent", "begun"})
    /\ manager = ConnectedManager(TRUE, TRUE)
    /\ tasks = [p \in TaskIds |-> IdleTask]
    /\ env = NewEnv(TRUE)

NextResubscribe ==
    \/ CallSubscribe("api", PRICE_CHANGE, CLOB_MARKET, NoList, NoList, "notification")
    \/ SubscribeSendDone("api")
    \/ \E id \in 1..MaxSubs : CallUnsubscribe("api", id)
    \/ UnsubscribeSendDone("api")
    \/ Returns("api")
    \/ manager.reconnect_count < MaxReconnects /\ CallReconnect("api2")
    \/ ReconnectSleepDone("api2")
    \/ CloseDone("api2")
    \/ ConnectDone("api2", TRUE)
    \/ ResubscribeSendDone("api2")
    \/ Returns("api2")
    \/ Elapse

SpecResubscribe == InitResubscribe /\ [][NextResubscribe]_vars

\* C32: while _resubscribe_all is suspended at the send of a frame no subscribe
\* or unsubscribe call adds or removes a registry entry, and so a reconnect that
\* succeeds (reconnect_attempts reset to 0) has sent a subscribe frame for each
\* subscription registered when _resubscribe_all began.
C32_RegistryFixedWhileResubscribing ==
    [][/\ tasks["api2"].pc = "resubscribe_send" =>
            Ids(manager'.subscriptions) = Ids(manager.subscriptions)
       /\ (/\ tasks["api2"].pc = "resubscribe_send"
           /\ tasks'["api2"].pc = "done"
           /\ manager'.reconnect_attempts = 0) =>
                \A id \in tasks["api2"].args[1] :
                    \E i \in 1..Len(tasks'["api2"].resent) : tasks'["api2"].resent[i] = id]_vars

(***************************************************************************)
(* Callbacks that raise                                                    *)
(***************************************************************************)
NextRaise ==
    \/ \E callback_type \in {"notification", "log"} :
            CallSubscribe("api", PRICE_CHANGE, CLOB_MARKET, NoList, NoList, callback_type)
    \/ SubscribeSendDone("api")
    \/ Returns("api")
    \/ CallHandleMessage("clob", Frame(PRICE_CHANGE, NoStr, "A", NoStr, "T1", "0.55"))
    \/ \E raises \in BOOLEAN : CallbackReturns("clob", raises)

SpecRaise == InitDelivery /\ [][NextRaise]_vars

\* the frames handled to the end that subscription id, registered before them,
\* matches: every frame of this specification is a price_change without filters
FramesFor(id) == {no \in 1..Len(env.log) : env.log[no].ended /\ id < env.log[no].next_id}

\* C33: once a frame has been handled, every subscription matching it has had
\* its callback invoked for the frame and its events_received incremented by
\* one (last_event_at is set by the same statement pair), also when the
\* callback of another matching subscription raised.
C33_EveryMatchIsNotified ==
    \A k \in 1..Len(manager.subscriptions) :
        LET sub == manager.subscriptions[k]
        IN  /\ \A no \in FramesFor(sub.id) : DeliveriesOf(no, sub.id) # {}
            /\ tasks["clob"].pc # "callback" =>
                    sub.events_received = Cardinality(FramesFor(sub.id))

\* the ids registered with x among the ids of the field the index is kept for
Registered(subs, field(_), x) ==
    {subs[i].id : i \in {k \in 1..Len(subs) : ListTruthy(field(subs[k])) /\ x \in field(subs[k]).ids}}
MarketIdsOf(sub) == sub.market_ids
TokenIdsOf(sub) == sub.token_ids

\* C34: the two indexes mirror the registry: an id is in market_subscriptions[m]
\* exactly when it is registered with m among its market_ids, and in
\* token_subscriptions[t] exactly when it is registered with t among its
\* token_ids; no index holds the id of a removed subscription.
C34_IndexesMirrorRegistry ==
    /\ \A m \in Markets :
            /\ manager.market_subscriptions[m] =
                    Registered(manager.subscriptions, MarketIdsOf, m)
            /\ manager.market_subscriptions[m] \cap env.removed = {}
    /\ \A t \in Tokens :
            /\ manager.token_subscriptions[t] =
                    Registered(manager.subscriptions, TokenIdsOf, t)
            /\ manager.token_subscriptions[t] \cap env.removed = {}

\* unsubscribe has returned True for a subscription filtered by markets and by
\* tokens, and another one is still registered in an index
C34_Witness ==
    /\ tasks["api"].op = "unsubscribe" /\ tasks["api"].pc = "done" /\ tasks["api"].ok
    /\ ListTruthy(tasks["api"].sub.market_ids) /\ ListTruthy(tasks["api"].sub.token_ids)
    /\ \E m \in Markets : manager.market_subscriptions[m] # {}

\* C35: when subscribe() has raised (the channel is not connected, or the frame
\* could not be sent) the registry and both indexes are as they were before the
\* call: no entry exists for the subscription whose id was not returned.
C35_FailedSubscribeLeavesNoEntry ==
    LET call == tasks["api"]
    IN  (call.op = "subscribe" /\ call.pc = "done" /\ call.exc # "none") =>
          /\ manager.subscriptions = call.before[1].subscriptions
          /\ manager.market_subscriptions = call.before[1].market_subscriptions
          /\ manager.token_subscriptions = call.before[1].token_subscriptions

\* C36: no acquire(category) call with retry_on_429 true returns while the
\* category's backoff-until is in the future, also when handle_429_error sets
\* the backoff while the call is waiting for tokens in the bucket.  Every
\* acquire of SpecWait is made with retry_on_429 true.
C36_NoReturnDuringBackoff ==
    [][\A p \in Callers :
          (callers[p].pc # "done" /\ callers'[p].pc = "done" /\ callers'[p].op = "acquire") =>
                Get(backoff_429', callers'[p].cat, 0) <= now]_vars

\* C37: no subscribe frame for the account-scoped channel (CLOB_USER) is sent
\* while authenticated is false, neither by subscribe() nor by the
\* retransmission of _resubscribe_all after a reconnect whose authentication
\* failed or timed out.
C37_UserFramesNeedAuthentication ==
    [][LET sent == tasks'["api"].resent
       IN  (sent # tasks["api"].resent /\ sent # <<>>) =>
              (SubOf(manager'.subscriptions, sent[Len(sent)]).channel = CLOB_USER =>
                    manager'.authenticated)]_vars

(***************************************************************************)
(* unsubscribe calls of two coroutines                                     *)
(***************************************************************************)
NextOverlap ==
    \/ CallSubscribe("api", PRICE_CHANGE, CLOB_MARKET, List({"A"}), NoList, "notification")
    \/ SubscribeSendDone("api")
    \/ \E p \in {"api", "api2"}, id \in 1..MaxSubs : CallUnsubscribe(p, id)
    \/ \E p \in {"api", "api2"} : UnsubscribeSendDone(p)
    \/ \E p \in {"api", "api2"} : Returns(p)
    \/ \E s \in Sockets : PeerCloses(s)

SpecOverlap == InitRegistry /\ [][NextOverlap]_vars

\* C38: when two unsubscribe(id) calls overlap, each having found the id
\* registered when it was called, exactly one returns True, the other returns
\* False, and neither raises.
C38_OverlappingUnsubscribes ==
    LET a == tasks["api"]
        b == tasks["api2"]
    IN  (/\ a.op = "unsubscribe" /\ a.pc = "done"
         /\ b.op = "unsubscribe" /\ b.pc = "done"
         /\ a.id = b.id
         /\ a.id \in Ids(a.before[1]) /\ b.id \in Ids(b.before[1])) =>
            /\ a.exc = "none" /\ b.exc = "none"
            /\ a.ok # b.ok

\* C39: in every reachable state authenticated implies clob_connected, for any
\* sequence of connect, disconnect and reconnect calls and of failures to open
\* a channel, a connect() made while connected and authenticated included.
C39_AuthenticatedImpliesConnected ==
    manager.authenticated => manager.clob_connected

\* C40: handle_429_error records the new backoff at the time it is called,
\* without waiting for an acquire in progress: the call completes at once, also
\* while another caller is sleeping out an active backoff, and sets
\* backoff-until from the time and the remaining backoff of the moment of the
\* call (doubling what remains of an active backoff).
C40_Handle429TakesEffectAtOnce ==
    [][\A p \in Callers :
          (callers[p].pc = "idle" /\ callers'[p].op = "handle_429_error") =>
              /\ callers'[p].pc = "done"
              /\ Get(backoff_429', callers'[p].cat, 0) =
                    now + BackoffTime(Get(backoff_429, callers'[p].cat, 0),
                                      Completed429(p)'.retry_after, now)]_vars

=============================================================================
